---------------------------- MODULE Spec2Model ----------------------------
(***************************************************************************)
(* Transcription Normalization Engine of usalingo_ipa_maker.               *)
(*                                                                         *)
(* A text is a sequence of one-character strings.  The regular expressions *)
(* the correctors use are modelled by a small matcher (MatchLen, ReSub,    *)
(* ReSearch) that has Python's re.sub semantics for the pattern shapes the *)
(* source uses: left to right, leftmost match, non-overlapping, greedy.    *)
(***************************************************************************)
EXTENDS Naturals, Sequences, FiniteSets, TLC

VARIABLES
    ipa,        \* the text handed to the operation under study (the row's ipa field)
    cleaned,    \* the current text (the local `cleaned` / `corrected` / `s`)
    prev,       \* the text the most recent operation was applied to
    op,         \* name of the most recent operation, "" before the first
    calls,      \* number of operations applied so far
    phonemes,   \* the token list of the tokenizer (symbol, stress digit)
    valid,      \* the validator's verdict: "none", "accept" or "reject"
    rules,      \* the ordered rule list of the rule pipeline
    ri,         \* number of rules of `rules` attempted so far
    changes,    \* rule numbers recorded as applied, in order
    input,          \* the lines, rows or words of the input a batch run reads
    consumed,       \* number of entries of `input` consumed so far
    results,        \* the records collected for the output (results / corrected_entries)
    review_items,   \* the records collected for the review stream
    invalid_count,  \* rows the validator rejected
    output,         \* the output stream: whether it was opened, the records written
    review_output,  \* the review stream, likewise
    log,            \* what the run has reported so far (warnings, fetches, summary)
    pc              \* position of the batch run: "idle", "rows", "written", "returned"

batchVars ==
    <<input, consumed, results, review_items, invalid_count, output, review_output, log, pc>>

\* A stream that has not been opened for writing
Unopened == [opened |-> FALSE, records |-> <<>>]

vars == <<ipa, cleaned, prev, op, calls, phonemes, valid, rules, ri, changes, batchVars>>

-----------------------------------------------------------------------------
(* Bounds of the model *)

MaxLen == 5        \* longest input text of the stress specification
MaxCalls == 2      \* how often an operation is re-applied to its own output
MaxCode == 4       \* longest Arpabet input besides the end-to-end scenario
MaxValText == 4    \* longest text handed to the validator on its own
MaxRuleText == 3   \* longest text handed to the rule pipeline
MaxRules == 2      \* longest external rule list

-----------------------------------------------------------------------------
(* Character classes of the source *)

\* Glyphs that cannot be written inside a string of this module are named by
\* their code point; every other character is written as itself.
OpenA == "U+0251"           \* ɑ
OpenO == "U+0254"           \* ɔ
Schwa == "U+0259"           \* ə
OpenE == "U+025B"           \* ɛ
RevOpenE == "U+025C"        \* ɜ
RhoticSchwa == "U+025D"     \* ɝ
ScriptG == "U+0261"         \* ɡ
SmallCapI == "U+026A"       \* ɪ
TurnedR == "U+0279"         \* ɹ
Eng == "U+014B"             \* ŋ

StressGlyphs == {"ˈ", "ˌ"}

\* [aeiouæɑɔʊʌɪɛəɜ]
Vowels == {"a", "e", "i", "o", "u", "æ", OpenA, OpenO, "ʊ", "ʌ", SmallCapI, OpenE,
           Schwa, RevOpenE}

\* [pbtdkgfvθðszʃʒmnlrwj]
Consonants == {"p", "b", "t", "d", "k", "g", "f", "v", "θ", "ð", "s", "z",
               "ʃ", "ʒ", "m", "n", "l", "r", "w", "j"}

Brackets == {"[", "]", "{", "}"}

Whitespace == {" ", "\t"}

-----------------------------------------------------------------------------
(* Regular expressions.                                                    *)
(*   kind "seq": a sequence of character classes, one character each       *)
(*               (a literal is a sequence of singleton classes);           *)
(*   kind "run": cls+ when min = 1, cls cls+ when min = 2; with same=TRUE  *)
(*               the repetition is the backreference \1 of ([..])\1+.      *)
(* A replacement is a sequence of items <<"c", ch>> (the literal ch) and   *)
(* <<"g", k>> (the character matched at position k of the match; this is   *)
(* how the groups \1, \2 and m.group(0)[0] of the source are written).     *)

SeqRule(pat, rep) ==
    [kind |-> "seq", pat |-> pat, rep |-> rep, cls |-> {}, same |-> FALSE, min |-> 0]

RunRule(cls, same, min, rep) ==
    [kind |-> "run", pat |-> <<>>, rep |-> rep, cls |-> cls, same |-> same, min |-> min]

Lit(str) == [k \in 1..Len(str) |-> <<"c", str[k]>>]

Classes(str) == [k \in 1..Len(str) |-> {str[k]}]

RECURSIVE RunEnd(_, _, _)
RunEnd(s, i, cls) ==
    IF i < Len(s) /\ s[i + 1] \in cls THEN RunEnd(s, i + 1, cls) ELSE i

\* Length of the match of r that starts at position i of s, 0 when there is none.
MatchLen(r, s, i) ==
    IF r.kind = "seq"
    THEN IF /\ Len(r.pat) > 0
            /\ i + Len(r.pat) - 1 <= Len(s)
            /\ \A k \in 1..Len(r.pat) : s[i + k - 1] \in r.pat[k]
         THEN Len(r.pat)
         ELSE 0
    ELSE IF s[i] \in r.cls
         THEN LET e == RunEnd(s, i, IF r.same THEN {s[i]} ELSE r.cls)
                  n == e - i + 1
              IN  IF n >= r.min THEN n ELSE 0
         ELSE 0

Replacement(r, s, i) ==
    [k \in 1..Len(r.rep) |->
        IF r.rep[k][1] = "g" THEN s[i + r.rep[k][2] - 1] ELSE r.rep[k][2]]

RECURSIVE SubFrom(_, _, _)
SubFrom(r, s, i) ==
    IF i > Len(s) THEN <<>>
    ELSE LET n == MatchLen(r, s, i)
         IN  IF n > 0
             THEN Replacement(r, s, i) \o SubFrom(r, s, i + n)
             ELSE <<s[i]>> \o SubFrom(r, s, i + 1)

\* re.sub(pattern, replacement, s)
ReSub(r, s) == SubFrom(r, s, 1)

\* re.search(pattern, s) is not None
ReSearch(r, s) == \E i \in 1..Len(s) : MatchLen(r, s, i) > 0

\* str.strip()
RECURSIVE LStrip(_)
LStrip(s) == IF s # <<>> /\ Head(s) \in Whitespace THEN LStrip(Tail(s)) ELSE s

RECURSIVE RStrip(_)
RStrip(s) ==
    IF s # <<>> /\ s[Len(s)] \in Whitespace THEN RStrip(SubSeq(s, 1, Len(s) - 1)) ELSE s

Strip(s) == RStrip(LStrip(s))

-----------------------------------------------------------------------------
(* The patterns of the stress correctors *)

\* r'[ˈˌ]+'  ->  lambda m: m.group(0)[0]
StressRunRule == RunRule(StressGlyphs, FALSE, 1, <<<<"g", 1>>>>)

\* r'([pbtdkgfvθðszʃʒmnlrwj])[ˈˌ]'  ->  r'\1'
StressAfterConsonantRule == SeqRule(<<Consonants, StressGlyphs>>, <<<<"g", 1>>>>)

\* r'([pbtdkgfvθðszʃʒmnlrwj])[ˈˌ]([pbtdkgfvθðszʃʒmnlrwj])'  ->  r'\1\2'
StressBetweenConsonantsRule ==
    SeqRule(<<Consonants, StressGlyphs, Consonants>>, <<<<"g", 1>>, <<"g", 3>>>>)

\* r'[ˈˌ]'  ->  ''
AnyStressRule == SeqRule(<<StressGlyphs>>, <<>>)

\* r'[\[\]{}]'  ->  ''
BracketRule == SeqRule(<<Brackets>>, <<>>)

\* r'\s+'  ->  ' '
SpaceRunRule == RunRule(Whitespace, FALSE, 1, <<<<"c", " ">>>>)

\* r'ɝ' -> 'ɜːr'
RhoticVowelRule == SeqRule(Classes(<<RhoticSchwa>>), Lit(<<RevOpenE, "ː", "r">>))

\* r'ɹ' -> 'r'
RhoticConsonantRule == SeqRule(Classes(<<TurnedR>>), Lit(<<"r">>))

CollapseStressRuns(s) == ReSub(StressRunRule, s)

\* cleaned.startswith(('ˈ', 'ˌ'))
StartsWithStress(s) == s # <<>> /\ s[1] \in StressGlyphs

\* re.search(r'[aeiouæɑɔʊʌɪɛəɜ]', cleaned).start() + 1, or 0 when there is no vowel
FirstVowel(s) ==
    IF \E i \in 1..Len(s) : s[i] \in Vowels
    THEN CHOOSE i \in 1..Len(s) :
            s[i] \in Vowels /\ \A j \in 1..(i - 1) : s[j] \notin Vowels
    ELSE 0

InsertAt(s, pos, ch) == SubSeq(s, 1, pos - 1) \o <<ch>> \o SubSeq(s, pos, Len(s))

\* Mutant: the glyph is put at the head of the text, not before the first vowel.
InsertMissingLeadingStress_Head(s) ==
    IF s # <<>> /\ ~StartsWithStress(s)
    THEN IF FirstVowel(s) > 0 THEN <<"ˈ">> \o s ELSE s
    ELSE s

\* The block "if cleaned and not cleaned.startswith(...): first_vowel = ...; insert"
InsertMissingLeadingStress(s) ==
    IF s # <<>> /\ ~StartsWithStress(s)
    THEN IF FirstVowel(s) > 0 THEN InsertAt(s, FirstVowel(s), "ˈ") ELSE s
    ELSE s

-----------------------------------------------------------------------------
(* The stress correctors (the variants of the Stress Resolver) *)

\* clean_stress_marks whose last step deletes every stress glyph after a consonant
clean_stress_marks_AfterConsonant(x) ==
    IF x = <<>> THEN <<>>
    ELSE ReSub(StressAfterConsonantRule,
               InsertMissingLeadingStress(CollapseStressRuns(x)))

\* FinalIPACorrector.clean_stress_marks
clean_stress_marks(x) ==
    IF x = <<>> THEN <<>>
    ELSE ReSub(StressBetweenConsonantsRule,
               InsertMissingLeadingStress(CollapseStressRuns(x)))

\* AdvancedIPACorrector.fix_duplicate_stress_marks
fix_duplicate_stress_marks(x) ==
    IF x = <<>> THEN <<>>
    ELSE InsertMissingLeadingStress(CollapseStressRuns(x))

\* AdvancedIPACorrector.fix_stress_placement
fix_stress_placement(x) ==
    IF x = <<>> THEN <<>>
    ELSE InsertMissingLeadingStress(
             CollapseStressRuns(ReSub(StressAfterConsonantRule, x)))

\* AdvancedIPACorrector.clean_ipa_pronunciation
Adv_clean_ipa_pronunciation(x) ==
    IF x = <<>> THEN <<>>
    ELSE Strip(ReSub(SpaceRunRule,
               ReSub(BracketRule,
                     fix_stress_placement(fix_duplicate_stress_marks(Strip(x))))))

\* CorrectIPAConverter.correct_ipa_pronunciation
correct_ipa_pronunciation(x) ==
    InsertMissingLeadingStress(
        CollapseStressRuns(ReSub(RhoticConsonantRule, ReSub(RhoticVowelRule, x))))

\* completely_fix_stress_marks that removes the primary glyphs only
completely_fix_stress_marks_KeepsSecondary(x) ==
    IF x = <<>> THEN <<>>
    ELSE LET no_stress == ReSub(SeqRule(<<{"ˈ"}>>, <<>>), x)
         IN  IF no_stress # <<>>
             THEN IF FirstVowel(no_stress) > 0
                  THEN InsertAt(no_stress, FirstVowel(no_stress), "ˈ")
                  ELSE <<"ˈ">> \o no_stress
             ELSE no_stress

\* UltimateIPACorrector.completely_fix_stress_marks
completely_fix_stress_marks(x) ==
    IF x = <<>> THEN <<>>
    ELSE LET no_stress == ReSub(AnyStressRule, x)
         IN  IF no_stress # <<>>
             THEN IF FirstVowel(no_stress) > 0
                  THEN InsertAt(no_stress, FirstVowel(no_stress), "ˈ")
                  ELSE <<"ˈ">> \o no_stress
             ELSE no_stress

StressOps == {"clean_stress_marks", "fix_duplicate_stress_marks",
              "fix_stress_placement", "Adv_clean_ipa_pronunciation",
              "correct_ipa_pronunciation", "completely_fix_stress_marks"}

\* The result of the stress corrector called `name` on x.
Resolve(name, x) ==
    CASE name = "clean_stress_marks" -> clean_stress_marks(x)
      [] name = "fix_duplicate_stress_marks" -> fix_duplicate_stress_marks(x)
      [] name = "fix_stress_placement" -> fix_stress_placement(x)
      [] name = "Adv_clean_ipa_pronunciation" -> Adv_clean_ipa_pronunciation(x)
      [] name = "correct_ipa_pronunciation" -> correct_ipa_pronunciation(x)
      [] name = "completely_fix_stress_marks" -> completely_fix_stress_marks(x)

-----------------------------------------------------------------------------
(* Input texts *)

Texts(alphabet, n) == UNION {[1..k -> alphabet] : k \in 0..n}

\* A primary and a secondary stress glyph, a vowel, a consonant of the
\* consonant class, and ɝ: neither a vowel nor a consonant of the class, and the
\* character correct_ipa_pronunciation rewrites.
StressAlphabet == {"ˈ", "ˌ", "æ", "t", RhoticSchwa}

\* No batch run is under way.
NoBatch ==
    /\ input = <<>>
    /\ consumed = 0
    /\ results = <<>>
    /\ review_items = <<>>
    /\ invalid_count = 0
    /\ output = Unopened
    /\ review_output = Unopened
    /\ log = <<>>
    /\ pc = "idle"

Idle ==
    /\ NoBatch
    /\ phonemes = <<>>
    /\ valid = "none"
    /\ rules = <<>>
    /\ ri = 0
    /\ changes = <<>>

-----------------------------------------------------------------------------
(* Specification of the stress correctors: a text is drawn, then one        *)
(* corrector is run on it and re-run on its own output.                     *)

InitStress ==
    /\ ipa \in Texts(StressAlphabet, MaxLen)
    /\ cleaned = ipa
    /\ prev = ipa
    /\ op = ""
    /\ calls = 0
    /\ Idle

\* An operation may run while the call budget lasts, and only the operation
\* that already ran is run again.
CanRun(name) == calls < MaxCalls /\ op \in {"", name}

Ran(name) ==
    /\ prev' = cleaned
    /\ op' = name
    /\ calls' = calls + 1
    /\ UNCHANGED <<ipa, phonemes, valid, rules, ri, changes, batchVars>>

FinalCleanStressMarks ==
    /\ CanRun("clean_stress_marks")
    /\ cleaned' = clean_stress_marks(cleaned)
    /\ Ran("clean_stress_marks")

AdvFixDuplicateStressMarks ==
    /\ CanRun("fix_duplicate_stress_marks")
    /\ cleaned' = fix_duplicate_stress_marks(cleaned)
    /\ Ran("fix_duplicate_stress_marks")

AdvFixStressPlacement ==
    /\ CanRun("fix_stress_placement")
    /\ cleaned' = fix_stress_placement(cleaned)
    /\ Ran("fix_stress_placement")

AdvCleanIpaPronunciation ==
    /\ CanRun("Adv_clean_ipa_pronunciation")
    /\ cleaned' = Adv_clean_ipa_pronunciation(cleaned)
    /\ Ran("Adv_clean_ipa_pronunciation")

CorrectIpaPronunciation ==
    /\ CanRun("correct_ipa_pronunciation")
    /\ cleaned' = correct_ipa_pronunciation(cleaned)
    /\ Ran("correct_ipa_pronunciation")

UltCompletelyFixStressMarks ==
    /\ CanRun("completely_fix_stress_marks")
    /\ cleaned' = completely_fix_stress_marks(cleaned)
    /\ Ran("completely_fix_stress_marks")

NextStress ==
    \/ FinalCleanStressMarks
    \/ AdvFixDuplicateStressMarks
    \/ AdvFixStressPlacement
    \/ AdvCleanIpaPronunciation
    \/ CorrectIpaPronunciation
    \/ UltCompletelyFixStressMarks

SpecStress == InitStress /\ [][NextStress]_vars

-----------------------------------------------------------------------------
(* Claims about the stress correctors *)

HasAdjacentStress(s) ==
    \E i \in 1..(Len(s) - 1) : s[i] \in StressGlyphs /\ s[i + 1] \in StressGlyphs

HasWedgedStress(s) ==
    \E i \in 2..(Len(s) - 1) :
        s[i] \in StressGlyphs /\ s[i - 1] \in Consonants /\ s[i + 1] \in Consonants

HasVowel(s) == \E i \in 1..Len(s) : s[i] \in Vowels

\* x with every stress glyph that directly follows a stress glyph removed: each
\* run of stress glyphs is replaced by its left-most glyph.
RECURSIVE RunHeads(_, _)
RunHeads(x, i) ==
    IF i > Len(x) THEN <<>>
    ELSE IF i > 1 /\ x[i] \in StressGlyphs /\ x[i - 1] \in StressGlyphs
         THEN RunHeads(x, i + 1)
         ELSE <<x[i]>> \o RunHeads(x, i + 1)

\* C1: the stress repair is idempotent, f(f(x)) = f(x), for clean_stress_marks,
\* fix_duplicate_stress_marks and correct_ipa_pronunciation: the second run of
\* the same operation leaves the text of the first run unchanged.
C1_Idempotent ==
    (calls >= 2 /\ op \in {"clean_stress_marks", "fix_duplicate_stress_marks",
                           "correct_ipa_pronunciation"})
        => cleaned = prev

\* C2: after Advanced.clean_ipa_pronunciation or Final.clean_stress_marks has run
\* the text holds no two adjacent stress glyphs.
C2_NoAdjacentStress ==
    (calls >= 1 /\ op \in {"Adv_clean_ipa_pronunciation", "clean_stress_marks"})
        => ~HasAdjacentStress(cleaned)

\* C3: the stress repair of x equals the stress repair of x with each run of
\* stress glyphs replaced by its left-most glyph, for fix_stress_placement,
\* fix_duplicate_stress_marks and clean_stress_marks.
C3_DuplicateCollapse ==
    (calls = 1 /\ op \in {"fix_stress_placement", "fix_duplicate_stress_marks",
                          "clean_stress_marks"})
        => cleaned = Resolve(op, RunHeads(ipa, 1))

\* C4: the output of Final.clean_stress_marks holds no stress glyph whose left
\* and right neighbours are both consonants of the consonant class.
C4_NoWedgedStress ==
    (calls >= 1 /\ op = "clean_stress_marks") => ~HasWedgedStress(cleaned)

NotStress(ch) == ch \notin StressGlyphs

\* out is c with one primary stress glyph put directly before its first vowel.
InsertedBeforeFirstVowel(c, out) ==
    \E p \in 1..Len(c) :
        /\ c[p] \in Vowels
        /\ \A j \in 1..(p - 1) : c[j] \notin Vowels
        /\ Len(out) = Len(c) + 1
        /\ out[p] = "ˈ"
        /\ \A j \in 1..Len(c) : out[IF j < p THEN j ELSE j + 1] = c[j]

\* The text the insertion step of the operation sees: the input after the
\* duplicate collapse (and, in correct_ipa_pronunciation, its two rhotic
\* replacements, which come first).
Collapsed(name, x) ==
    RunHeads(IF name = "correct_ipa_pronunciation"
             THEN ReSub(RhoticConsonantRule, ReSub(RhoticVowelRule, x))
             ELSE x, 1)

LeadingStressInserted(name, x, out) ==
    LET c == Collapsed(name, x)
    IN  IF ~StartsWithStress(c) /\ HasVowel(c)
        THEN InsertedBeforeFirstVowel(c, out)
        ELSE out = c

\* C5 as claimed: correct_ipa_pronunciation, fix_duplicate_stress_marks and
\* completely_fix_stress_marks insert one primary stress glyph before the first
\* vowel of a collapsed text that has a vowel and no leading stress glyph, and
\* insert nothing into a text with no vowel or with a leading stress glyph.
C5_AsClaimed ==
    (calls = 1 /\ op \in {"correct_ipa_pronunciation", "fix_duplicate_stress_marks",
                          "completely_fix_stress_marks"})
        => LeadingStressInserted(op, ipa, cleaned)

\* C5 (amended): the claim holds for correct_ipa_pronunciation and
\* fix_duplicate_stress_marks; completely_fix_stress_marks deletes every stress
\* glyph and then puts one primary glyph before the first vowel, or at the head
\* of a non-empty text that has no vowel.
C5_LeadingStressInsertion ==
    /\ (calls = 1 /\ op \in {"correct_ipa_pronunciation", "fix_duplicate_stress_marks"})
          => LeadingStressInserted(op, ipa, cleaned)
    /\ (calls = 1 /\ op = "completely_fix_stress_marks")
          => LET n == SelectSeq(ipa, NotStress)
             IN  IF n = <<>> THEN cleaned = <<>>
                 ELSE IF HasVowel(n) THEN InsertedBeforeFirstVowel(n, cleaned)
                 ELSE cleaned = <<"ˈ">> \o n

C5_Witness ==
    /\ calls = 1
    /\ op = "fix_duplicate_stress_marks"
    /\ ipa = <<"t", "æ", "t">>
    /\ cleaned = <<"t", "ˈ", "æ", "t">>

-----------------------------------------------------------------------------
(* Arpabet: the tables, the two tokenizers and the two mappers.            *)
(* A phoneme code is a sequence of characters, as the scan accumulates it. *)

Upper == {"A", "B", "C", "D", "E", "F", "G", "H", "I", "J", "K", "L", "M",
          "N", "O", "P", "Q", "R", "S", "T", "U", "V", "W", "X", "Y", "Z"}

Lower == {"a", "b", "c", "d", "e", "f", "g", "h", "i", "j", "k", "l", "m",
          "n", "o", "p", "q", "r", "s", "t", "u", "v", "w", "x", "y", "z"}

Digits == {"0", "1", "2", "3", "4", "5", "6", "7", "8", "9"}

\* The delimiters of the scan: [' ', ',', '/']
Delimiters == {" ", ",", "/"}

AH == <<"A", "H">>

\* vowel_mapping (the same table in CorrectIPAConverter and IPACorrector)
vowel_mapping ==
    (<<"A", "A">> :> <<OpenA>>) @@
    (<<"A", "E">> :> <<"æ">>) @@
    (<<"A", "H">> :> <<"ʌ">>) @@
    (<<"A", "O">> :> <<OpenO>>) @@
    (<<"A", "W">> :> <<"a", "ʊ">>) @@
    (<<"A", "Y">> :> <<"a", SmallCapI>>) @@
    (<<"E", "H">> :> <<OpenE>>) @@
    (<<"E", "R">> :> <<RevOpenE, "ː", "r">>) @@
    (<<"E", "Y">> :> <<"e", SmallCapI>>) @@
    (<<"I", "H">> :> <<SmallCapI>>) @@
    (<<"I", "Y">> :> <<"i", "ː">>) @@
    (<<"O", "W">> :> <<"o", "ʊ">>) @@
    (<<"O", "Y">> :> <<OpenO, SmallCapI>>) @@
    (<<"U", "H">> :> <<"ʊ">>) @@
    (<<"U", "W">> :> <<"u", "ː">>)

\* consonant_mapping (the same table in both classes)
consonant_mapping ==
    (<<"P">> :> <<"p">>) @@
    (<<"B">> :> <<"b">>) @@
    (<<"T">> :> <<"t">>) @@
    (<<"D">> :> <<"d">>) @@
    (<<"K">> :> <<"k">>) @@
    (<<"G">> :> <<ScriptG>>) @@
    (<<"C", "H">> :> <<"t", "ʃ">>) @@
    (<<"J", "H">> :> <<"d", "ʒ">>) @@
    (<<"F">> :> <<"f">>) @@
    (<<"V">> :> <<"v">>) @@
    (<<"T", "H">> :> <<"θ">>) @@
    (<<"D", "H">> :> <<"ð">>) @@
    (<<"S">> :> <<"s">>) @@
    (<<"Z">> :> <<"z">>) @@
    (<<"S", "H">> :> <<"ʃ">>) @@
    (<<"Z", "H">> :> <<"ʒ">>) @@
    (<<"H", "H">> :> <<"h">>) @@
    (<<"M">> :> <<"m">>) @@
    (<<"N">> :> <<"n">>) @@
    (<<"N", "G">> :> <<Eng>>) @@
    (<<"L">> :> <<"l">>) @@
    (<<"R">> :> <<"r">>) @@
    (<<"W">> :> <<"w">>) @@
    (<<"Y">> :> <<"j">>)

\* stress_mapping, keyed by the digit character
stress_mapping == ("0" :> <<>>) @@ ("1" :> <<"ˈ">>) @@ ("2" :> <<"ˌ">>)

\* int(match.group(2)) and str(stress), for the digits [0-2] of the pattern
DigitValue == ("0" :> 0) @@ ("1" :> 1) @@ ("2" :> 2)

DigitChar == (0 :> "0") @@ (1 :> "1") @@ (2 :> "2")

\* str.split(): the maximal runs of non-whitespace characters, in order
RECURSIVE SplitFrom(_, _)
SplitFrom(s, i) ==
    IF i > Len(s) THEN <<>>
    ELSE IF s[i] \in Whitespace THEN SplitFrom(s, i + 1)
    ELSE LET e == CHOOSE j \in i..Len(s) :
                     /\ \A k \in i..j : s[k] \notin Whitespace
                     /\ (j = Len(s) \/ s[j + 1] \in Whitespace)
         IN  <<SubSeq(s, i, e)>> \o SplitFrom(s, e + 1)

\* re.match(r'([A-Z]+)([0-2])?', token): <<>> when there is no match, else the
\* one parsed pair (symbol, stress) with stress an integer
MatchToken(token) ==
    IF token # <<>> /\ token[1] \in Upper
    THEN LET e == RunEnd(token, 1, Upper)
         IN  <<<<SubSeq(token, 1, e),
                 IF e < Len(token) /\ token[e + 1] \in DOMAIN DigitValue
                 THEN DigitValue[token[e + 1]]
                 ELSE 0>>>>
    ELSE <<>>

RECURSIVE ParseTokens(_)
ParseTokens(tokens) ==
    IF tokens = <<>> THEN <<>>
    ELSE MatchToken(Head(tokens)) \o ParseTokens(Tail(tokens))

\* CorrectIPAConverter.parse_cmu_pronunciation
parse_cmu_pronunciation(cmu_pronunciation) ==
    ParseTokens(SplitFrom(cmu_pronunciation, 1))

\* Mutant: the AH check is left out, the table entry is used for every stress.
SegmentOf_NoAHCheck(symbol, stress) ==
    IF symbol \in DOMAIN vowel_mapping
    THEN (IF DigitChar[stress] \in DOMAIN stress_mapping
          THEN stress_mapping[DigitChar[stress]] ELSE <<>>) \o vowel_mapping[symbol]
    ELSE IF symbol \in DOMAIN consonant_mapping
    THEN consonant_mapping[symbol]
    ELSE <<>>

\* The body of the loop of convert_to_ipa: the segment of one parsed pair
SegmentOf(symbol, stress) ==
    IF symbol \in DOMAIN vowel_mapping
    THEN LET ipa_symbol == IF symbol = AH
                           THEN (IF stress > 0 THEN <<"ʌ">> ELSE <<Schwa>>)
                           ELSE vowel_mapping[symbol]
             stress_mark == IF DigitChar[stress] \in DOMAIN stress_mapping
                            THEN stress_mapping[DigitChar[stress]]
                            ELSE <<>>
         IN  stress_mark \o ipa_symbol
    ELSE IF symbol \in DOMAIN consonant_mapping
    THEN consonant_mapping[symbol]
    ELSE <<>>

\* CorrectIPAConverter.convert_to_ipa
RECURSIVE convert_to_ipa(_)
convert_to_ipa(parsed_pronunciation) ==
    IF parsed_pronunciation = <<>> THEN <<>>
    ELSE SegmentOf(Head(parsed_pronunciation)[1], Head(parsed_pronunciation)[2])
            \o convert_to_ipa(Tail(parsed_pronunciation))

\* The flush of the scan with the closing digit dropped
Flush_Unstressed(current_phoneme, stress) ==
    IF current_phoneme # <<>> THEN <<<<current_phoneme, "0">>>> ELSE <<>>

\* The flush of the scan: phonemes.append((current_phoneme, stress)) when a
\* candidate is open
Flush(current_phoneme, stress) ==
    IF current_phoneme # <<>> THEN <<<<current_phoneme, stress>>>> ELSE <<>>

\* The tokenizing scan of IPACorrector.convert_arpabet_to_ipa; the stress of a
\* token is the digit character that closed it
RECURSIVE ScanFrom(_, _, _)
ScanFrom(text, i, current_phoneme) ==
    IF i > Len(text) THEN Flush(current_phoneme, "0")
    ELSE IF text[i] \in Upper
         THEN ScanFrom(text, i + 1, Append(current_phoneme, text[i]))
    ELSE IF text[i] \in Digits
         THEN Flush(current_phoneme, text[i]) \o ScanFrom(text, i + 1, <<>>)
    ELSE IF text[i] \in Delimiters
         THEN Flush(current_phoneme, "0") \o ScanFrom(text, i + 1, <<>>)
    ELSE Flush(current_phoneme, "0") \o ScanFrom(text, i + 1, <<>>)

\* The phonemes list of a scan that sees the stress glyphs of the text
ArpabetPhonemes_KeepsGlyphs(arpabet_text) == ScanFrom(arpabet_text, 1, <<>>)

\* The phonemes list of convert_arpabet_to_ipa: stress glyphs are removed from
\* the text, then the text is scanned
ArpabetPhonemes(arpabet_text) == ScanFrom(ReSub(AnyStressRule, arpabet_text), 1, <<>>)

\* The body of the mapping loop with the stress glyph put before consonants too
IpaPhonemeOf_StressAnyCode(phoneme, stress) ==
    IF phoneme \in DOMAIN vowel_mapping \cup DOMAIN consonant_mapping
    THEN (IF stress = "1" THEN <<"ˈ">> ELSE IF stress = "2" THEN <<"ˌ">> ELSE <<>>)
            \o (IF phoneme \in DOMAIN vowel_mapping THEN vowel_mapping[phoneme]
                                                     ELSE consonant_mapping[phoneme])
    ELSE <<>>

\* The body of the mapping loop of convert_arpabet_to_ipa
IpaPhonemeOf(phoneme, stress) ==
    IF phoneme \in DOMAIN vowel_mapping
    THEN (IF stress = "1" THEN <<"ˈ">> ELSE IF stress = "2" THEN <<"ˌ">> ELSE <<>>)
            \o vowel_mapping[phoneme]
    ELSE IF phoneme \in DOMAIN consonant_mapping
    THEN consonant_mapping[phoneme]
    ELSE <<>>

RECURSIVE JoinIpaPhonemes(_)
JoinIpaPhonemes(phs) ==
    IF phs = <<>> THEN <<>>
    ELSE IpaPhonemeOf(Head(phs)[1], Head(phs)[2]) \o JoinIpaPhonemes(Tail(phs))

\* convert_arpabet_to_ipa that marks the text when a code is in neither table
convert_arpabet_to_ipa_MarksUnknown(arpabet_text) ==
    IF arpabet_text = <<>> THEN <<>>
    ELSE JoinIpaPhonemes(ArpabetPhonemes(arpabet_text))
            \o (IF \E k \in 1..Len(ArpabetPhonemes(arpabet_text)) :
                       ArpabetPhonemes(arpabet_text)[k][1]
                           \notin DOMAIN vowel_mapping \cup DOMAIN consonant_mapping
                THEN <<"?">> ELSE <<>>)

\* IPACorrector.convert_arpabet_to_ipa
convert_arpabet_to_ipa(arpabet_text) ==
    IF arpabet_text = <<>> THEN <<>>
    ELSE JoinIpaPhonemes(ArpabetPhonemes(arpabet_text))

-----------------------------------------------------------------------------
(* The built-in corrections and correct_ipa_format *)

\* r'tj' -> 'tʃ'
TjRule == SeqRule(Classes(<<"t", "j">>), Lit(<<"t", "ʃ">>))

\* r'dj' -> 'dʒ'
DjRule == SeqRule(Classes(<<"d", "j">>), Lit(<<"d", "ʒ">>))

\* r'ːː+' -> 'ː'
LengthRunRule == RunRule({"ː"}, FALSE, 2, Lit(<<"ː">>))

\* r'([ˈˌ])\1+' -> r'\1'
SameStressRunRule == RunRule(StressGlyphs, TRUE, 2, <<<<"g", 1>>>>)

\* CorrectIPAConverter.apply_american_english_corrections
Cor_apply_american_english_corrections(x) ==
    ReSub(StressRunRule,
          ReSub(DjRule, ReSub(TjRule, ReSub(RhoticConsonantRule, ReSub(RhoticVowelRule, x)))))

\* IPACorrector.apply_american_english_corrections
Ipa_apply_american_english_corrections(ipa_text) ==
    IF ipa_text = <<>> THEN <<>>
    ELSE ReSub(SameStressRunRule,
               ReSub(LengthRunRule, ReSub(DjRule, ReSub(TjRule, ReSub(RhoticVowelRule, ipa_text)))))

\* str.split(', '): the pieces between the non-overlapping occurrences of ', '
RECURSIVE SplitCommaSpace(_, _, _)
SplitCommaSpace(s, i, start) ==
    IF i > Len(s) THEN <<SubSeq(s, start, Len(s))>>
    ELSE IF i < Len(s) /\ s[i] = "," /\ s[i + 1] = " "
         THEN <<SubSeq(s, start, i - 1)>> \o SplitCommaSpace(s, i + 2, i + 2)
         ELSE SplitCommaSpace(s, i + 1, start)

\* ', '.join(parts)
RECURSIVE JoinCommaSpace(_)
JoinCommaSpace(parts) ==
    IF parts = <<>> THEN <<>>
    ELSE IF Len(parts) = 1 THEN parts[1]
    ELSE parts[1] \o <<",", " ">> \o JoinCommaSpace(Tail(parts))

\* The loop of correct_ipa_format: the corrected pronunciations that are not empty
RECURSIVE CorrectedPronunciations(_)
CorrectedPronunciations(pronunciations) ==
    IF pronunciations = <<>> THEN <<>>
    ELSE LET pron == Strip(Head(pronunciations))
             corrected == Ipa_apply_american_english_corrections(convert_arpabet_to_ipa(pron))
         IN  (IF pron # <<>> /\ corrected # <<>> THEN <<corrected>> ELSE <<>>)
                \o CorrectedPronunciations(Tail(pronunciations))

\* IPACorrector.correct_ipa_format
correct_ipa_format(ipa_text) ==
    IF ipa_text = <<>> THEN <<>>
    ELSE JoinCommaSpace(CorrectedPronunciations(SplitCommaSpace(ipa_text, 1, 1)))

-----------------------------------------------------------------------------
(* The validator *)

\* invalid_chars
invalid_chars == {"<", ">", "&", "\"", "'", "(", ")", "[", "]", "{", "}"}

\* ipa_indicators
ipa_indicators == {"ˈ", "ˌ", Schwa, SmallCapI, OpenE, "æ", OpenA, OpenO, "ʊ", "ʌ",
                   "/", "ː", RevOpenE, "r"}

Contains(s, chars) == \E i \in 1..Len(s) : s[i] \in chars

\* Mutant: the length test of the indicator check is made on the trimmed text.
Adv_validate_ipa_format_Trimmed(x) ==
    IF x = <<>> THEN FALSE
    ELSE IF Len(Strip(x)) < 2 THEN FALSE
    ELSE IF Contains(x, invalid_chars) THEN FALSE
    ELSE IF ~Contains(x, ipa_indicators) /\ Len(Strip(x)) < 3 THEN FALSE
    ELSE TRUE

\* AdvancedIPACorrector.validate_ipa_format
Adv_validate_ipa_format(x) ==
    IF x = <<>> THEN FALSE
    ELSE IF Len(Strip(x)) < 2 THEN FALSE
    ELSE IF Contains(x, invalid_chars) THEN FALSE
    ELSE IF ~Contains(x, ipa_indicators) /\ Len(x) < 3 THEN FALSE
    ELSE TRUE

\* FinalIPACorrector.validate_ipa_format
Final_validate_ipa_format(x) ==
    IF x = <<>> THEN FALSE
    ELSE IF Len(Strip(x)) < 2 THEN FALSE
    ELSE IF Contains(x, invalid_chars) THEN FALSE
    ELSE IF ~Contains(x, ipa_indicators) /\ Len(x) < 3 THEN FALSE
    ELSE TRUE

-----------------------------------------------------------------------------
(* Specification of the Arpabet pipeline: a phoneme-code string is drawn and *)
(* taken through tokenizer, mapper, stress resolver, built-in corrections    *)
(* and validator, along the CorrectIPAConverter functions, or through        *)
(* IPACorrector.convert_arpabet_to_ipa / correct_ipa_format.                 *)

ArpabetAlphabet == {"A", "H", "T", "0", "1", "2", " ", ",", "a"}

MaxIpaLikeText == 3

\* Characters of texts that are IPA already or codes with stress glyphs in them
IpaLikeAlphabet == {"ˈ", "ˌ", "æ", "t", "A", "H", "1"}

\* "AH0 B AO1 R SH AH0 N"
Scenario ==
    <<"A", "H", "0", " ", "B", " ", "A", "O", "1", " ", "R", " ", "S", "H", " ",
      "A", "H", "0", " ", "N">>

InitArpabet ==
    /\ ipa \in Texts(ArpabetAlphabet, MaxCode) \cup {Scenario}
                \cup Texts(IpaLikeAlphabet, MaxIpaLikeText)
    /\ cleaned = <<>>
    /\ prev = <<>>
    /\ op = ""
    /\ calls = 0
    /\ Idle

ParseCmuPronunciation ==
    /\ op = ""
    /\ phonemes' = parse_cmu_pronunciation(ipa)
    /\ op' = "parse_cmu_pronunciation"
    /\ calls' = calls + 1
    /\ UNCHANGED <<ipa, cleaned, prev, valid, rules, ri, changes, batchVars>>

ConvertToIpa ==
    /\ op = "parse_cmu_pronunciation"
    /\ prev' = cleaned
    /\ cleaned' = convert_to_ipa(phonemes)
    /\ op' = "convert_to_ipa"
    /\ calls' = calls + 1
    /\ UNCHANGED <<ipa, phonemes, valid, rules, ri, changes, batchVars>>

ResolveStress ==
    /\ op = "convert_to_ipa"
    /\ prev' = cleaned
    /\ cleaned' = correct_ipa_pronunciation(cleaned)
    /\ op' = "correct_ipa_pronunciation"
    /\ calls' = calls + 1
    /\ UNCHANGED <<ipa, phonemes, valid, rules, ri, changes, batchVars>>

CorApplyCorrections ==
    /\ op = "correct_ipa_pronunciation"
    /\ prev' = cleaned
    /\ cleaned' = Cor_apply_american_english_corrections(cleaned)
    /\ op' = "Cor_apply_american_english_corrections"
    /\ calls' = calls + 1
    /\ UNCHANGED <<ipa, phonemes, valid, rules, ri, changes, batchVars>>

ConvertArpabetToIpa ==
    /\ op = ""
    /\ phonemes' = (IF ipa = <<>> THEN <<>> ELSE ArpabetPhonemes(ipa))
    /\ prev' = cleaned
    /\ cleaned' = convert_arpabet_to_ipa(ipa)
    /\ op' = "convert_arpabet_to_ipa"
    /\ calls' = calls + 1
    /\ UNCHANGED <<ipa, valid, rules, ri, changes, batchVars>>

IpaApplyCorrections ==
    /\ op = "convert_arpabet_to_ipa"
    /\ prev' = cleaned
    /\ cleaned' = Ipa_apply_american_english_corrections(cleaned)
    /\ op' = "Ipa_apply_american_english_corrections"
    /\ calls' = calls + 1
    /\ UNCHANGED <<ipa, phonemes, valid, rules, ri, changes, batchVars>>

CorrectIpaFormat ==
    /\ op = ""
    /\ prev' = cleaned
    /\ cleaned' = correct_ipa_format(ipa)
    /\ op' = "correct_ipa_format"
    /\ calls' = calls + 1
    /\ UNCHANGED <<ipa, phonemes, valid, rules, ri, changes, batchVars>>

ValidateMapped ==
    /\ op \in {"Cor_apply_american_english_corrections",
               "Ipa_apply_american_english_corrections", "correct_ipa_format"}
    /\ valid = "none"
    /\ valid' = (IF Adv_validate_ipa_format(cleaned) THEN "accept" ELSE "reject")
    /\ calls' = calls + 1
    /\ UNCHANGED <<ipa, cleaned, prev, op, phonemes, rules, ri, changes, batchVars>>

NextArpabet ==
    \/ ParseCmuPronunciation
    \/ ConvertToIpa
    \/ ResolveStress
    \/ CorApplyCorrections
    \/ ConvertArpabetToIpa
    \/ IpaApplyCorrections
    \/ CorrectIpaFormat
    \/ ValidateMapped

SpecArpabet == InitArpabet /\ [][NextArpabet]_vars

-----------------------------------------------------------------------------
(* Claims about the tokenizers, the mappers and the end-to-end scenario *)

IsLetter(ch) == ch \in Upper \cup Lower

RECURSIVE ConcatSymbols(_)
ConcatSymbols(tokens) ==
    IF tokens = <<>> THEN <<>> ELSE Head(tokens)[1] \o ConcatSymbols(Tail(tokens))

\* C6: the symbols of the tokens of s, concatenated in order, are the letters of
\* s (digits and delimiters removed), for the scan of convert_arpabet_to_ipa and
\* for parse_cmu_pronunciation.  Stated here for the inputs whose letters are
\* all uppercase, the phoneme-code strings; it fails already on those.
C6_TotalCoverage ==
    (op \in {"parse_cmu_pronunciation", "convert_arpabet_to_ipa"}
        /\ ~Contains(ipa, Lower))
        => ConcatSymbols(phonemes) = SelectSeq(ipa, IsLetter)

\* The stress level of a token is PRIMARY or SECONDARY (an integer from
\* parse_cmu_pronunciation, a digit character from the scan).
Stressed(name, stress) ==
    IF name = "convert_to_ipa" THEN stress \in {1, 2} ELSE stress \in {"1", "2"}

\* C7: both mappers render AH as ʌ under PRIMARY or SECONDARY stress and as ə
\* under stress NONE: for a token list of AH tokens the output without its
\* stress glyphs is the list of those glyphs.
C7_AHDisambiguation ==
    (/\ op \in {"convert_to_ipa", "convert_arpabet_to_ipa"}
     /\ phonemes # <<>>
     /\ \A i \in 1..Len(phonemes) : phonemes[i][1] = AH)
        => SelectSeq(cleaned, NotStress) =
              [i \in 1..Len(phonemes) |->
                  IF Stressed(op, phonemes[i][2]) THEN "ʌ" ELSE Schwa]

\* The scenario's phoneme codes; the claim's token list lacks the last one.
ScenarioCodes == <<AH, <<"B">>, <<"A", "O">>, <<"R">>, <<"S", "H">>, AH, <<"N">>>>

ScenarioStress == <<0, 0, 1, 0, 0, 0, 0>>

\* əbˈɔrʃən, ʌbˈɔrʃʌn and ˈəbˈɔrʃən
MappedScenario == <<Schwa, "b", "ˈ", OpenO, "r", "ʃ", Schwa, "n">>

MappedScenarioNoAHCheck == <<"ʌ", "b", "ˈ", OpenO, "r", "ʃ", "ʌ", "n">>

ResolvedScenario == <<"ˈ">> \o MappedScenario

-----------------------------------------------------------------------------
(* Specification of the validator on its own *)

\* A plain letter, a forbidden character, an indicator character and a blank.
ValidatorAlphabet == {"a", "<", "æ", " "}

InitValidator ==
    /\ ipa \in Texts(ValidatorAlphabet, MaxValText)
    /\ cleaned = ipa
    /\ prev = ipa
    /\ op = ""
    /\ calls = 0
    /\ Idle

AdvValidateIpaFormat ==
    /\ valid = "none"
    /\ valid' = (IF Adv_validate_ipa_format(cleaned) THEN "accept" ELSE "reject")
    /\ op' = "Adv_validate_ipa_format"
    /\ calls' = calls + 1
    /\ UNCHANGED <<ipa, cleaned, prev, phonemes, rules, ri, changes, batchVars>>

FinalValidateIpaFormat ==
    /\ valid = "none"
    /\ valid' = (IF Final_validate_ipa_format(cleaned) THEN "accept" ELSE "reject")
    /\ op' = "Final_validate_ipa_format"
    /\ calls' = calls + 1
    /\ UNCHANGED <<ipa, cleaned, prev, phonemes, rules, ri, changes, batchVars>>

NextValidator == AdvValidateIpaFormat \/ FinalValidateIpaFormat

SpecValidator == InitValidator /\ [][NextValidator]_vars

\* The three checks of the claim
TooShortTrimmed(x) == Len(Strip(x)) < 2

HasForbidden(x) ==
    \E i \in 1..Len(x) : x[i] \in {"<", ">", "&", "\"", "'", "(", ")", "[", "]", "{", "}"}

ShortWithoutIndicator(x) == ~Contains(x, ipa_indicators) /\ Len(x) < 3

\* C9: the validator rejects exactly when the trimmed text is shorter than 2
\* characters, or the text holds a forbidden character, or it holds no indicator
\* character and is shorter than 3 characters; so every 1-character text and
\* every 2-character text with a forbidden character is rejected.
C9_Validator ==
    valid # "none" =>
        /\ valid = "reject" <=>
              (TooShortTrimmed(cleaned) \/ HasForbidden(cleaned)
                  \/ ShortWithoutIndicator(cleaned))
        /\ Len(cleaned) = 1 => valid = "reject"
        /\ (Len(cleaned) = 2 /\ HasForbidden(cleaned)) => valid = "reject"

C9_Witness ==
    /\ op = "Final_validate_ipa_format"
    /\ cleaned = <<"æ", "<">>
    /\ valid = "reject"

-----------------------------------------------------------------------------
(* The rule pipeline *)

\* Mutant: the rule for ɹ is left out of the list.
correction_rules_NoTurnedR ==
    <<RhoticVowelRule, TjRule, DjRule, LengthRunRule, SameStressRunRule, SpaceRunRule>>

\* IPAStandardizer.correction_rules
correction_rules ==
    <<RhoticVowelRule, RhoticConsonantRule, TjRule, DjRule, LengthRunRule,
      SameStressRunRule, SpaceRunRule>>

\* The loop "for pattern, replacement in self.correction_rules" from rule k on
RECURSIVE ApplyRulesFrom(_, _, _)
ApplyRulesFrom(rs, k, standardized) ==
    IF k > Len(rs) THEN standardized
    ELSE ApplyRulesFrom(rs, k + 1, ReSub(rs[k], standardized))

\* The loop over the pronunciations of standardize_ipa
RECURSIVE StandardizedPronunciations(_)
StandardizedPronunciations(pronunciations) ==
    IF pronunciations = <<>> THEN <<>>
    ELSE LET pron == Strip(Head(pronunciations))
             standardized == Strip(ApplyRulesFrom(correction_rules, 1, pron))
         IN  (IF pron # <<>> /\ standardized # <<>> THEN <<standardized>> ELSE <<>>)
                \o StandardizedPronunciations(Tail(pronunciations))

\* IPAStandardizer.standardize_ipa
standardize_ipa(ipa_text) ==
    IF ipa_text = <<>> THEN <<>>
    ELSE JoinCommaSpace(StandardizedPronunciations(SplitCommaSpace(ipa_text, 1, 1)))

\* Mutant: first match wins, no rule is applied once one has changed the text.
MappingIteration_FirstMatchWins(i, cre, s, chg) ==
    IF chg = <<>> /\ ReSearch(cre, s)
    THEN LET new == ReSub(cre, s)
         IN  <<new, IF s # new THEN Append(chg, i) ELSE chg>>
    ELSE <<s, chg>>

\* One iteration of the loop of apply_mapping, for rule number i: the new text
\* and the new change list
MappingIteration(i, cre, s, chg) ==
    IF ReSearch(cre, s)
    THEN LET new == ReSub(cre, s)
         IN  <<new, IF s # new THEN Append(chg, i) ELSE chg>>
    ELSE <<s, chg>>

\* Rules an external rule table may hold: t -> j, j -> t, tj -> tʃ, ːː+ -> ː,
\* and t -> t, which matches without changing the text
RulePool ==
    {SeqRule(Classes(<<"t">>), Lit(<<"j">>)), SeqRule(Classes(<<"j">>), Lit(<<"t">>)),
     TjRule, LengthRunRule, SeqRule(Classes(<<"t">>), Lit(<<"t">>))}

RuleAlphabet == {"t", "j", "ː", ",", " "}

InitRules ==
    /\ ipa \in Texts(RuleAlphabet, MaxRuleText)
    /\ rules \in Texts(RulePool, MaxRules)
    /\ cleaned = ipa
    /\ prev = ipa
    /\ op = ""
    /\ calls = 0
    /\ phonemes = <<>>
    /\ valid = "none"
    /\ ri = 0
    /\ changes = <<>>
    /\ NoBatch

\* One iteration of the loop that records every rule whose pattern is found
ApplyMappingRule_RecordsMatches ==
    /\ op \in {"", "apply_mapping"}
    /\ ri < Len(rules)
    /\ IF ReSearch(rules[ri + 1], cleaned)
       THEN cleaned' = ReSub(rules[ri + 1], cleaned) /\ changes' = Append(changes, ri + 1)
       ELSE cleaned' = cleaned /\ changes' = changes
    /\ prev' = cleaned
    /\ ri' = ri + 1
    /\ op' = "apply_mapping"
    /\ UNCHANGED <<ipa, calls, phonemes, valid, rules, batchVars>>

\* apply_mapping(original_ipa, rules): one iteration of its loop
ApplyMappingRule ==
    /\ op \in {"", "apply_mapping"}
    /\ ri < Len(rules)
    /\ LET it == MappingIteration(ri + 1, rules[ri + 1], cleaned, changes)
       IN  cleaned' = it[1] /\ changes' = it[2]
    /\ prev' = cleaned
    /\ ri' = ri + 1
    /\ op' = "apply_mapping"
    /\ UNCHANGED <<ipa, calls, phonemes, valid, rules, batchVars>>

\* return s, changes
ApplyMappingReturn ==
    /\ op = "apply_mapping"
    /\ ri = Len(rules)
    /\ op' = "apply_mapping.return"
    /\ calls' = calls + 1
    /\ UNCHANGED <<ipa, cleaned, prev, phonemes, valid, rules, ri, changes, batchVars>>

StandardizeIpa ==
    /\ op = ""
    /\ prev' = cleaned
    /\ cleaned' = standardize_ipa(ipa)
    /\ op' = "standardize_ipa"
    /\ calls' = calls + 1
    /\ UNCHANGED <<ipa, phonemes, valid, rules, ri, changes, batchVars>>

NextRules == ApplyMappingRule \/ ApplyMappingReturn \/ StandardizeIpa

SpecRules == InitRules /\ [][NextRules]_vars

\* The left-to-right fold of "replace all non-overlapping matches" over a list
RECURSIVE FoldRules(_, _)
FoldRules(rs, text) ==
    IF rs = <<>> THEN text
    ELSE ReSub(rs[Len(rs)], FoldRules(SubSeq(rs, 1, Len(rs) - 1), text))

NonEmpty(s) == s # <<>>

-----------------------------------------------------------------------------
(* Specification of the built-in corrections: a text is drawn and one of    *)
(* the three built-in rule lists is run on it; standardize_ipa is re-run on *)
(* its own output.                                                          *)

MaxBuiltinText == 4

\* The characters the built-in rules distinguish
BuiltinAlphabet == {RhoticSchwa, TurnedR, "t", "d", "j", "ː", "ˈ", "ˌ", " ", ","}

MaxSeparatorText == 3

\* The characters the split into pronunciations and the trimming distinguish
SeparatorAlphabet == {",", " ", "\t", "t"}

\* 'kɝt' and 'ædjʊl'
BuiltinExamples == {<<"k", RhoticSchwa, "t">>, <<"æ", "d", "j", "ʊ", "l">>}

InitBuiltin ==
    /\ ipa \in Texts(BuiltinAlphabet, MaxBuiltinText) \cup BuiltinExamples
                \cup Texts(SeparatorAlphabet, MaxSeparatorText)
    /\ cleaned = ipa
    /\ prev = ipa
    /\ op = ""
    /\ calls = 0
    /\ Idle

BuiltinStandardizeIpa ==
    /\ op \in {"", "standardize_ipa"}
    /\ calls < MaxCalls
    /\ prev' = cleaned
    /\ cleaned' = standardize_ipa(cleaned)
    /\ op' = "standardize_ipa"
    /\ calls' = calls + 1
    /\ UNCHANGED <<ipa, phonemes, valid, rules, ri, changes, batchVars>>

BuiltinIpaCorrections ==
    /\ op = ""
    /\ prev' = cleaned
    /\ cleaned' = Ipa_apply_american_english_corrections(ipa)
    /\ op' = "Ipa_apply_american_english_corrections"
    /\ calls' = calls + 1
    /\ UNCHANGED <<ipa, phonemes, valid, rules, ri, changes, batchVars>>

BuiltinCorCorrections ==
    /\ op = ""
    /\ prev' = cleaned
    /\ cleaned' = Cor_apply_american_english_corrections(ipa)
    /\ op' = "Cor_apply_american_english_corrections"
    /\ calls' = calls + 1
    /\ UNCHANGED <<ipa, phonemes, valid, rules, ri, changes, batchVars>>

NextBuiltin == BuiltinStandardizeIpa \/ BuiltinIpaCorrections \/ BuiltinCorCorrections

SpecBuiltin == InitBuiltin /\ [][NextBuiltin]_vars

HasPair(s, a, b) == \E i \in 1..(Len(s) - 1) : s[i] = a /\ s[i + 1] = b

BuiltinOps ==
    {"standardize_ipa", "Ipa_apply_american_english_corrections",
     "Cor_apply_american_english_corrections"}

\* C11: 'kɝt' becomes 'kɜːrt' and 'ædjʊl' becomes 'ædʒʊl' under each built-in
\* rule list, and the output of standardize_ipa holds no ɝ, no ɹ, no adjacent
\* tj or dj and no two consecutive length marks, whatever the input.
C11_BuiltinCorrections ==
    /\ (op \in BuiltinOps /\ ipa = <<"k", RhoticSchwa, "t">>)
          => cleaned = <<"k", RevOpenE, "ː", "r", "t">>
    /\ (op \in BuiltinOps /\ ipa = <<"æ", "d", "j", "ʊ", "l">>)
          => cleaned = <<"æ", "d", "ʒ", "ʊ", "l">>
    /\ op = "standardize_ipa"
          => /\ ~Contains(cleaned, {RhoticSchwa, TurnedR})
             /\ ~HasPair(cleaned, "t", "j")
             /\ ~HasPair(cleaned, "d", "j")
             /\ ~HasPair(cleaned, "ː", "ː")

\* ɹːː is standardized to rː
C11_Witness ==
    /\ op = "standardize_ipa"
    /\ ipa = <<TurnedR, "ː", "ː">>
    /\ cleaned = <<"r", "ː">>

\* C12: after a built-in rule list has run, the text holds no two adjacent
\* stress glyphs, for standardize_ipa and both apply_american_english_corrections.
C12_StressSafetyNet ==
    op \in BuiltinOps => ~HasAdjacentStress(cleaned)

-----------------------------------------------------------------------------
(* Rule table loading: read_mapping.  The input is the mapping file: whether *)
(* it exists, and its lines.  A loaded rule is the pair (pattern,            *)
(* replacement) of a line; log holds what read_mapping prints.               *)

MaxLines == 2

StartsWith(s, ch) == s # <<>> /\ s[1] = ch

\* line.split('\t', 1): the line itself when it has no tab, else the text
\* before the first tab and the whole text after it
SplitTabOnce(line) ==
    IF Contains(line, {"\t"})
    THEN LET t == CHOOSE i \in 1..Len(line) :
                      line[i] = "\t" /\ \A j \in 1..(i - 1) : line[j] # "\t"
         IN  <<SubSeq(line, 1, t - 1), SubSeq(line, t + 1, Len(line))>>
    ELSE <<line>>

\* Nesting depth of the parentheses of a pattern after its first k characters,
\* -1 once a ')' has closed nothing
RECURSIVE ParenDepth(_, _)
ParenDepth(pattern, k) ==
    IF k = 0 THEN 0
    ELSE LET d == ParenDepth(pattern, k - 1)
         IN  IF d < 0 THEN d
             ELSE IF pattern[k] = "(" THEN d + 1
             ELSE IF pattern[k] = ")" THEN d - 1
             ELSE d

\* re.compile(pattern) succeeds.  For the patterns of the line pool (letters,
\* blanks and parentheses) it fails exactly on unbalanced parentheses.
Compiles(pattern) == ParenDepth(pattern, Len(pattern)) = 0

\* The body of the loop of read_mapping for line number line_num: the new rule
\* list and the new log
MappingLine(line_num, raw, rs, lg) ==
    LET line == Strip(raw)
        parts == SplitTabOnce(line)
    IN  IF line = <<>> \/ StartsWith(line, "#") THEN <<rs, lg>>
        ELSE IF Len(parts) # 2 THEN <<rs, Append(lg, <<"format", line_num>>)>>
        ELSE IF Compiles(parts[1])
             THEN <<Append(rs, <<parts[1], parts[2]>>),
                    Append(lg, <<"added", parts[1], parts[2]>>)>>
             ELSE <<rs, Append(lg, <<"compile", line_num>>)>>

\* Lines a mapping file may hold: blank, blanks only, a comment, 'a<TAB>b',
\* no tab, a pattern that does not compile, three fields, a rule with blanks
\* around it, a grouped pattern, a pattern with nothing after the tab
LinePool ==
    {<<>>, <<" ">>, <<"#", "a", "\t", "b">>, <<"a", "\t", "b">>, <<"a">>,
     <<"(", "\t", "b">>, <<"a", "\t", "b", "\t", "c">>,
     <<" ", "t", "j", "\t", "t", "ʃ", " ">>, <<"(", "a", ")", "\t", "b">>,
     <<"a", "\t">>}

InitMapping ==
    /\ input \in [exists : BOOLEAN, lines : Texts(LinePool, MaxLines)]
    /\ input.exists \/ input.lines = <<>>
    /\ consumed = 0
    /\ results = <<>>
    /\ review_items = <<>>
    /\ invalid_count = 0
    /\ output = Unopened
    /\ review_output = Unopened
    /\ log = <<>>
    /\ pc = "idle"
    /\ ipa = <<>>
    /\ cleaned = <<>>
    /\ prev = <<>>
    /\ op = ""
    /\ calls = 0
    /\ phonemes = <<>>
    /\ valid = "none"
    /\ rules = <<>>
    /\ ri = 0
    /\ changes = <<>>

\* if not os.path.exists(path): warn and return the empty list
ReadMappingMissing ==
    /\ op = ""
    /\ ~input.exists
    /\ log' = Append(log, <<"missing">>)
    /\ op' = "read_mapping.return"
    /\ UNCHANGED <<ipa, cleaned, prev, calls, phonemes, valid, rules, ri, changes,
                   input, consumed, results, review_items, invalid_count, output,
                   review_output, pc>>

\* One iteration of "for line_num, line in enumerate(f, 1)"
ReadMappingLine ==
    /\ op \in {"", "read_mapping"}
    /\ input.exists
    /\ consumed < Len(input.lines)
    /\ LET it == MappingLine(consumed + 1, input.lines[consumed + 1], rules, log)
       IN  rules' = it[1] /\ log' = it[2]
    /\ op' = "read_mapping"
    /\ consumed' = consumed + 1
    /\ UNCHANGED <<ipa, cleaned, prev, calls, phonemes, valid, ri, changes,
                   input, results, review_items, invalid_count, output, review_output, pc>>

\* The total is printed and the list returned
ReadMappingReturn ==
    /\ op \in {"", "read_mapping"}
    /\ input.exists
    /\ consumed = Len(input.lines)
    /\ log' = Append(log, <<"total", Len(rules)>>)
    /\ op' = "read_mapping.return"
    /\ UNCHANGED <<ipa, cleaned, prev, calls, phonemes, valid, rules, ri, changes,
                   input, consumed, results, review_items, invalid_count, output,
                   review_output, pc>>

NextMapping == ReadMappingMissing \/ ReadMappingLine \/ ReadMappingReturn

SpecMapping == InitMapping /\ [][NextMapping]_vars

\* str.split('\t'): every tab separates two fields
RECURSIVE TabFields(_)
TabFields(line) ==
    IF Contains(line, {"\t"})
    THEN <<SplitTabOnce(line)[1]>> \o TabFields(SplitTabOnce(line)[2])
    ELSE <<line>>

\* A line that contributes no rule and no warning: blank, or a comment
Ignored(raw) == Strip(raw) = <<>> \/ StartsWith(Strip(raw), "#")

\* A well-formed line: exactly two tab-separated fields, the first a pattern
\* that compiles
WellFormed(raw) ==
    /\ ~Ignored(raw)
    /\ Len(TabFields(Strip(raw))) = 2
    /\ Compiles(TabFields(Strip(raw))[1])

RuleOfLine(raw) == <<TabFields(Strip(raw))[1], TabFields(Strip(raw))[2]>>

Malformed(raw) == ~Ignored(raw) /\ ~WellFormed(raw)

IsWarning(entry) == entry[1] \in {"format", "compile"}

\* C13: when read_mapping returns, the rule list is the sequence of the
\* well-formed lines of the file, in file order; blank lines and comments give
\* no rule; every other line that is not well-formed gives a warning and no
\* rule, and the lines after it are still read.
C13_RuleTableLoading ==
    (op = "read_mapping.return" /\ input.exists) =>
        /\ consumed = Len(input.lines)
        /\ rules = [i \in 1..Len(SelectSeq(input.lines, WellFormed)) |->
                       RuleOfLine(SelectSeq(input.lines, WellFormed)[i])]
        /\ Len(SelectSeq(log, IsWarning)) = Len(SelectSeq(input.lines, Malformed))


-----------------------------------------------------------------------------
(* The batch drivers.  The input of process_data / process_corrected_data is *)
(* the rows csv.DictReader yields: a row whose line held n < 4 fields has    *)
(* None in the fields beyond n.  log holds what the run prints and, last,    *)
(* the pair it returns.                                                      *)

MaxRows == 3

\* UltimateIPACorrector.clean_ipa_pronunciation
Ult_clean_ipa_pronunciation(x) ==
    IF x = <<>> THEN <<>>
    ELSE Strip(ReSub(SpaceRunRule, ReSub(BracketRule, completely_fix_stress_marks(Strip(x)))))

\* UltimateIPACorrector.validate_ipa_format
Ult_validate_ipa_format(x) ==
    IF x = <<>> THEN FALSE
    ELSE IF Len(Strip(x)) < 2 THEN FALSE
    ELSE IF Contains(x, invalid_chars) THEN FALSE
    ELSE IF ~Contains(x, ipa_indicators) /\ Len(x) < 3 THEN FALSE
    ELSE TRUE

CsvRow(n, text) ==
    [n |-> n, word |-> <<"w", " ">>, ipa |-> text, source |-> <<"s">>, original_ipa |-> <<"o">>]

\* Rows of four fields whose ipa is accepted, rejected, padded with blanks,
\* forbidden or empty, and two rows whose line was short
RowPool ==
    {CsvRow(4, <<"ˈ", "æ", "t">>), CsvRow(4, <<"x">>), CsvRow(4, <<" ", "t", "æ", " ">>),
     CsvRow(4, <<"a", "<", "æ">>), CsvRow(4, <<>>), CsvRow(1, <<>>),
     CsvRow(3, <<"ˈ", "æ", "t">>)}

\* row.get(key, '').strip() raises AttributeError on a field that is None
RowRaises(row) == row.n < 4

\* The dictionary with the ipa field of the row in place of the cleaned text
Entry_Uncleaned(row, cleaned_ipa) ==
    [word |-> Strip(row.word), ipa |-> Strip(row.ipa), source |-> Strip(row.source),
     original_ipa |-> Strip(row.original_ipa)]

\* The dictionary appended to corrected_entries
Entry(row, cleaned_ipa) ==
    [word |-> Strip(row.word), ipa |-> cleaned_ipa, source |-> Strip(row.source),
     original_ipa |-> Strip(row.original_ipa)]

\* except Exception as e: print the error, return 0, 0
Failed(lg) == lg \o <<<<"error">>, <<"return", 0, 0>>>>

\* The sentinel failure markers __NO_IPA__, #TOKEN and __EMPTY__, and "error"
NoIpaMark == <<"_", "_", "N", "O", "_", "I", "P", "A", "_", "_">>

TokenMark == <<"#", "T", "O", "K", "E", "N">>

EmptyMark == <<"_", "_", "E", "M", "P", "T", "Y", "_", "_">>

ErrorText == <<"e", "r", "r", "o", "r">>

\* sub in s
HasSubstring(s, sub) ==
    \E i \in 1..Len(s) : i + Len(sub) - 1 <= Len(s) /\ SubSeq(s, i, i + Len(sub) - 1) = sub

\* The loop of apply_mapping from rule k on: the pair (s, changes)
RECURSIVE ApplyMappingFrom(_, _, _, _)
ApplyMappingFrom(rs, k, s, chg) ==
    IF k > Len(rs) THEN <<s, chg>>
    ELSE LET it == MappingIteration(k, rs[k], s, chg)
         IN  ApplyMappingFrom(rs, k + 1, it[1], it[2])

\* apply_mapping(text, rules)
apply_mapping(text, rs) == ApplyMappingFrom(rs, 1, text, <<>>)

\* Mutant: without rules the change list of the previous record is kept.
Normalize_CarriedChanges(original_ipa, rs, carried) ==
    LET mapped == IF rs # <<>> THEN apply_mapping(original_ipa, rs)
                  ELSE <<original_ipa, carried>>
    IN  IF mapped[1] = NoIpaMark THEN <<ErrorText, Append(mapped[2], 0)>> ELSE mapped

\* main, from "if rules:" to the replacement of __NO_IPA__: the pair
\* (normalized_ipa, changes).  carried is what the variable `changes` holds
\* from the previous record; entry 0 of a change list is '__NO_IPA__ -> error'.
Normalize(original_ipa, rs, carried) ==
    LET mapped == IF rs # <<>> THEN apply_mapping(original_ipa, rs)
                  ELSE <<original_ipa, <<>>>>
    IN  IF mapped[1] = NoIpaMark THEN <<ErrorText, Append(mapped[2], 0)>> ELSE mapped

\* The dictionary appended to results
Result(word, original_ipa, n) ==
    [word |-> word, original_ipa |-> original_ipa, normalized_ipa |-> n[1],
     changes_count |-> Len(n[2]), changes_detail |-> n[2]]

\* The condition under which the record is appended to review_items
NeedsReview(original_ipa, normalized_ipa) ==
    \/ normalized_ipa # original_ipa
    \/ HasSubstring(normalized_ipa, NoIpaMark)
    \/ HasSubstring(normalized_ipa, TokenMark)
    \/ HasSubstring(normalized_ipa, EmptyMark)

Changed(r) == r.changes_count > 0

\* Lines of the input of process_sample: a record a rule changes, one two rules
\* change and change back, one no rule touches, records with the markers
\* __NO_IPA__ and #TOKEN, a line without tab, a blank line
SampleLinePool ==
    {<<"w", "\t", "t", "j">>, <<"w", "\t", "t">>, <<"w", "\t", "æ">>,
     <<"w", "\t">> \o NoIpaMark, <<"w", "\t", "æ">> \o TokenMark,
     <<"w">>, <<" ">>}

\* Rule tables read_mapping may have loaded: none, t -> j, tj -> tʃ, and
\* t -> j followed by j -> t
SampleRuleTables ==
    {<<>>, <<SeqRule(Classes(<<"t">>), Lit(<<"j">>))>>, <<TjRule>>,
     <<SeqRule(Classes(<<"t">>), Lit(<<"j">>)), SeqRule(Classes(<<"j">>), Lit(<<"t">>))>>}

CsvDrivers == {"Adv.process_data", "Final.process_corrected_data", "Ult.process_data"}

InitBatch ==
    /\ op \in CsvDrivers \cup {"process_sample.main"}
    /\ input \in (IF op = "process_sample.main" THEN Texts(SampleLinePool, MaxRows)
                                               ELSE Texts(RowPool, MaxRows))
    /\ rules \in (IF op = "process_sample.main" THEN SampleRuleTables ELSE {<<>>})
    /\ consumed = 0
    /\ results = <<>>
    /\ review_items = <<>>
    /\ invalid_count = 0
    /\ output = Unopened
    /\ review_output = Unopened
    /\ log = <<>>
    /\ pc = "rows"
    /\ ipa = <<>>
    /\ cleaned = <<>>
    /\ prev = <<>>
    /\ calls = 0
    /\ phonemes = <<>>
    /\ valid = "none"
    /\ ri = 0
    /\ changes = <<>>

\* AdvancedIPACorrector.process_data: one iteration of "for row in reader"
AdvProcessRow ==
    /\ op = "Adv.process_data"
    /\ pc = "rows"
    /\ consumed < Len(input)
    /\ LET row == input[consumed + 1]
           cleaned_ipa == Adv_clean_ipa_pronunciation(Strip(row.ipa))
       IN  IF RowRaises(row)
           THEN /\ log' = Failed(log)
                /\ pc' = "returned"
                /\ UNCHANGED <<ipa, cleaned, valid, results, invalid_count>>
           ELSE /\ ipa' = Strip(row.ipa)
                /\ cleaned' = cleaned_ipa
                /\ pc' = "rows"
                /\ IF Adv_validate_ipa_format(cleaned_ipa)
                   THEN /\ valid' = "accept"
                        /\ results' = Append(results, Entry(row, cleaned_ipa))
                        /\ UNCHANGED <<invalid_count, log>>
                   ELSE /\ valid' = "reject"
                        /\ invalid_count' = invalid_count + 1
                        /\ log' = Append(log, <<"invalid", Strip(row.word), cleaned_ipa>>)
                        /\ UNCHANGED results
    /\ consumed' = consumed + 1
    /\ UNCHANGED <<prev, op, calls, phonemes, rules, ri, changes, input, review_items,
                   output, review_output>>

\* AdvancedIPACorrector.process_data: opening or reading the input, or opening the output, raises
AdvIoFailure ==
    /\ op = "Adv.process_data"
    /\ pc = "rows"
    /\ log' = Failed(Append(log, <<"io_error">>))
    /\ pc' = "returned"
    /\ UNCHANGED <<ipa, cleaned, prev, op, calls, phonemes, valid, rules, ri, changes,
                   input, consumed, results, review_items, invalid_count, output,
                   review_output>>

\* Mutant: the output is opened while rows remain to be read.
AdvWriteOutput_Early ==
    /\ op = "Adv.process_data"
    /\ pc = "rows"
    /\ \E k \in 0..Len(results) :
          /\ output' = [opened |-> TRUE, records |-> SubSeq(results, 1, k)]
          /\ IF k = Len(results)
             THEN pc' = "written" /\ log' = log
             ELSE pc' = "returned" /\ log' = Failed(Append(log, <<"io_error">>))
    /\ UNCHANGED <<ipa, cleaned, prev, op, calls, phonemes, valid, rules, ri, changes,
                   input, consumed, results, review_items, invalid_count, review_output>>

\* AdvancedIPACorrector.process_data: the output is opened and the entries are written; a write that
\* raises leaves the entries written before it
AdvWriteOutput ==
    /\ op = "Adv.process_data"
    /\ pc = "rows"
    /\ consumed = Len(input)
    /\ \E k \in 0..Len(results) :
          /\ output' = [opened |-> TRUE, records |-> SubSeq(results, 1, k)]
          /\ IF k = Len(results)
             THEN pc' = "written" /\ log' = log
             ELSE pc' = "returned" /\ log' = Failed(Append(log, <<"io_error">>))
    /\ UNCHANGED <<ipa, cleaned, prev, op, calls, phonemes, valid, rules, ri, changes,
                   input, consumed, results, review_items, invalid_count, review_output>>

\* AdvancedIPACorrector.process_data: return len(corrected_entries), invalid_count
AdvReturn ==
    /\ op = "Adv.process_data"
    /\ pc = "written"
    /\ log' = Append(log, <<"return", Len(results), invalid_count>>)
    /\ pc' = "returned"
    /\ UNCHANGED <<ipa, cleaned, prev, op, calls, phonemes, valid, rules, ri, changes,
                   input, consumed, results, review_items, invalid_count, output,
                   review_output>>

\* FinalIPACorrector.process_corrected_data: one iteration of "for row in reader"
FinalProcessRow ==
    /\ op = "Final.process_corrected_data"
    /\ pc = "rows"
    /\ consumed < Len(input)
    /\ LET row == input[consumed + 1]
           cleaned_ipa == clean_stress_marks(Strip(row.ipa))
       IN  IF RowRaises(row)
           THEN /\ log' = Failed(log)
                /\ pc' = "returned"
                /\ UNCHANGED <<ipa, cleaned, valid, results, invalid_count>>
           ELSE /\ ipa' = Strip(row.ipa)
                /\ cleaned' = cleaned_ipa
                /\ pc' = "rows"
                /\ IF Final_validate_ipa_format(cleaned_ipa)
                   THEN /\ valid' = "accept"
                        /\ results' = Append(results, Entry(row, cleaned_ipa))
                        /\ UNCHANGED <<invalid_count, log>>
                   ELSE /\ valid' = "reject"
                        /\ invalid_count' = invalid_count + 1
                        /\ log' = Append(log, <<"invalid", Strip(row.word), cleaned_ipa>>)
                        /\ UNCHANGED results
    /\ consumed' = consumed + 1
    /\ UNCHANGED <<prev, op, calls, phonemes, rules, ri, changes, input, review_items,
                   output, review_output>>

\* FinalIPACorrector.process_corrected_data: opening or reading the input, or opening the output, raises
FinalIoFailure ==
    /\ op = "Final.process_corrected_data"
    /\ pc = "rows"
    /\ log' = Failed(Append(log, <<"io_error">>))
    /\ pc' = "returned"
    /\ UNCHANGED <<ipa, cleaned, prev, op, calls, phonemes, valid, rules, ri, changes,
                   input, consumed, results, review_items, invalid_count, output,
                   review_output>>

\* FinalIPACorrector.process_corrected_data: the output is opened and the entries are written; a write that
\* raises leaves the entries written before it
FinalWriteOutput ==
    /\ op = "Final.process_corrected_data"
    /\ pc = "rows"
    /\ consumed = Len(input)
    /\ \E k \in 0..Len(results) :
          /\ output' = [opened |-> TRUE, records |-> SubSeq(results, 1, k)]
          /\ IF k = Len(results)
             THEN pc' = "written" /\ log' = log
             ELSE pc' = "returned" /\ log' = Failed(Append(log, <<"io_error">>))
    /\ UNCHANGED <<ipa, cleaned, prev, op, calls, phonemes, valid, rules, ri, changes,
                   input, consumed, results, review_items, invalid_count, review_output>>

\* FinalIPACorrector.process_corrected_data: return len(corrected_entries), invalid_count
FinalReturn ==
    /\ op = "Final.process_corrected_data"
    /\ pc = "written"
    /\ log' = Append(log, <<"return", Len(results), invalid_count>>)
    /\ pc' = "returned"
    /\ UNCHANGED <<ipa, cleaned, prev, op, calls, phonemes, valid, rules, ri, changes,
                   input, consumed, results, review_items, invalid_count, output,
                   review_output>>

\* UltimateIPACorrector.process_data: one iteration of "for row in reader"
UltProcessRow ==
    /\ op = "Ult.process_data"
    /\ pc = "rows"
    /\ consumed < Len(input)
    /\ LET row == input[consumed + 1]
           cleaned_ipa == Ult_clean_ipa_pronunciation(Strip(row.ipa))
       IN  IF RowRaises(row)
           THEN /\ log' = Failed(log)
                /\ pc' = "returned"
                /\ UNCHANGED <<ipa, cleaned, valid, results, invalid_count>>
           ELSE /\ ipa' = Strip(row.ipa)
                /\ cleaned' = cleaned_ipa
                /\ pc' = "rows"
                /\ IF Ult_validate_ipa_format(cleaned_ipa)
                   THEN /\ valid' = "accept"
                        /\ results' = Append(results, Entry(row, cleaned_ipa))
                        /\ UNCHANGED <<invalid_count, log>>
                   ELSE /\ valid' = "reject"
                        /\ invalid_count' = invalid_count + 1
                        /\ log' = Append(log, <<"invalid", Strip(row.word), cleaned_ipa>>)
                        /\ UNCHANGED results
    /\ consumed' = consumed + 1
    /\ UNCHANGED <<prev, op, calls, phonemes, rules, ri, changes, input, review_items,
                   output, review_output>>

\* UltimateIPACorrector.process_data: opening or reading the input, or opening the output, raises
UltIoFailure ==
    /\ op = "Ult.process_data"
    /\ pc = "rows"
    /\ log' = Failed(Append(log, <<"io_error">>))
    /\ pc' = "returned"
    /\ UNCHANGED <<ipa, cleaned, prev, op, calls, phonemes, valid, rules, ri, changes,
                   input, consumed, results, review_items, invalid_count, output,
                   review_output>>

\* UltimateIPACorrector.process_data: the output is opened and the entries are written; a write that
\* raises leaves the entries written before it
UltWriteOutput ==
    /\ op = "Ult.process_data"
    /\ pc = "rows"
    /\ consumed = Len(input)
    /\ \E k \in 0..Len(results) :
          /\ output' = [opened |-> TRUE, records |-> SubSeq(results, 1, k)]
          /\ IF k = Len(results)
             THEN pc' = "written" /\ log' = log
             ELSE pc' = "returned" /\ log' = Failed(Append(log, <<"io_error">>))
    /\ UNCHANGED <<ipa, cleaned, prev, op, calls, phonemes, valid, rules, ri, changes,
                   input, consumed, results, review_items, invalid_count, review_output>>

\* UltimateIPACorrector.process_data: return len(corrected_entries), invalid_count
UltReturn ==
    /\ op = "Ult.process_data"
    /\ pc = "written"
    /\ log' = Append(log, <<"return", Len(results), invalid_count>>)
    /\ pc' = "returned"
    /\ UNCHANGED <<ipa, cleaned, prev, op, calls, phonemes, valid, rules, ri, changes,
                   input, consumed, results, review_items, invalid_count, output,
                   review_output>>

\* process_sample.main: one iteration of "for line_num, line in enumerate(f, 1)"
SampleProcessLine ==
    /\ op = "process_sample.main"
    /\ pc = "rows"
    /\ consumed < Len(input)
    /\ LET line == Strip(input[consumed + 1])
           parts == SplitTabOnce(line)
       IN  IF line = <<>>
           THEN UNCHANGED <<ipa, cleaned, changes, results, review_items, log>>
           ELSE IF Len(parts) # 2
           THEN /\ log' = Append(log, <<"format", consumed + 1>>)
                /\ UNCHANGED <<ipa, cleaned, changes, results, review_items>>
           ELSE LET n == Normalize(parts[2], rules, changes)
                    result == Result(parts[1], parts[2], n)
                IN  /\ ipa' = parts[2]
                    /\ cleaned' = n[1]
                    /\ changes' = n[2]
                    /\ results' = Append(results, result)
                    /\ review_items' = IF NeedsReview(parts[2], n[1])
                                       THEN Append(review_items, result)
                                       ELSE review_items
                    /\ log' = log
    /\ consumed' = consumed + 1
    /\ UNCHANGED <<prev, op, calls, phonemes, valid, rules, ri, input, invalid_count,
                   output, review_output, pc>>

\* process_sample.main: the input does not exist or reading it raises; main
\* is left with nothing written
SampleIoFailure ==
    /\ op = "process_sample.main"
    /\ pc = "rows"
    /\ log' = Append(log, <<"io_error">>)
    /\ pc' = "returned"
    /\ UNCHANGED <<ipa, cleaned, prev, op, calls, phonemes, valid, rules, ri, changes,
                   input, consumed, results, review_items, invalid_count, output,
                   review_output>>

\* process_sample.main: out_df.to_csv(OUTPUT_CSV); a write that raises leaves
\* the records written before it
SampleWriteOutput ==
    /\ op = "process_sample.main"
    /\ pc = "rows"
    /\ consumed = Len(input)
    /\ \E k \in 0..Len(results) :
          /\ output' = [opened |-> TRUE, records |-> SubSeq(results, 1, k)]
          /\ IF k = Len(results)
             THEN pc' = "written" /\ log' = log
             ELSE pc' = "returned" /\ log' = Append(log, <<"io_error">>)
    /\ UNCHANGED <<ipa, cleaned, prev, op, calls, phonemes, valid, rules, ri, changes,
                   input, consumed, results, review_items, invalid_count, review_output>>

\* process_sample.main: the review list is written when it is not empty
SampleWriteReview ==
    /\ op = "process_sample.main"
    /\ pc = "written"
    /\ IF review_items # <<>>
       THEN \E k \in 0..Len(review_items) :
               /\ review_output' = [opened |-> TRUE, records |-> SubSeq(review_items, 1, k)]
               /\ IF k = Len(review_items)
                  THEN pc' = "review_written"
                          /\ log' = Append(log, <<"review", Len(review_items)>>)
                  ELSE pc' = "returned" /\ log' = Append(log, <<"io_error">>)
       ELSE /\ review_output' = review_output
            /\ pc' = "review_written"
            /\ log' = Append(log, <<"no_review">>)
    /\ UNCHANGED <<ipa, cleaned, prev, op, calls, phonemes, valid, rules, ri, changes,
                   input, consumed, results, review_items, invalid_count, output>>

\* process_sample.main: the closing summary
SampleSummary ==
    /\ op = "process_sample.main"
    /\ pc = "review_written"
    /\ log' = log \o <<<<"done">>, <<"total", Len(results)>>,
                       <<"changed", Len(SelectSeq(results, Changed))>>>>
    /\ pc' = "returned"
    /\ UNCHANGED <<ipa, cleaned, prev, op, calls, phonemes, valid, rules, ri, changes,
                   input, consumed, results, review_items, invalid_count, output,
                   review_output>>

NextBatch ==
    \/ SampleProcessLine \/ SampleIoFailure \/ SampleWriteOutput
    \/ SampleWriteReview \/ SampleSummary
    \/ AdvProcessRow \/ AdvIoFailure \/ AdvWriteOutput \/ AdvReturn
    \/ FinalProcessRow \/ FinalIoFailure \/ FinalWriteOutput \/ FinalReturn
    \/ UltProcessRow \/ UltIoFailure \/ UltWriteOutput \/ UltReturn

SpecBatch == InitBatch /\ [][NextBatch]_vars

IsIoError(entry) == entry[1] = "io_error"

NoIoFailure == SelectSeq(log, IsIoError) = <<>>

\* C14: when process_data / process_corrected_data returns and no I/O failure
\* occurred, every row has been processed and the returned valid count plus
\* invalid count is the number of input rows.
C14_RejectionNonFatal ==
    (/\ op \in {"Adv.process_data", "Final.process_corrected_data"}
     /\ pc = "returned"
     /\ NoIoFailure)
        => /\ consumed = Len(input)
           /\ log[Len(log)][2] + log[Len(log)][3] = Len(input)


IsMember(x, seq) == \E j \in 1..Len(seq) : seq[j] = x

\* The validator of a driver accepts the text
Accepts(driver, text) ==
    IF driver = "Adv.process_data" THEN Adv_validate_ipa_format(text)
    ELSE Ult_validate_ipa_format(text)

\* C15: in process_data (Advanced, Ultimate) and in main of process_sample an
\* output stream is opened only after every input row has been processed, so
\* a run that fails while reading or processing has written nothing; and what
\* the output holds are records of the result list, each fully processed (for
\* process_data: its ipa is the cleaned text the validator accepted).
C15_NoPartialOutput ==
    op \in {"Adv.process_data", "Ult.process_data", "process_sample.main"} =>
        /\ output.opened => consumed = Len(input)
        /\ review_output.opened => (consumed = Len(input) /\ pc \notin {"rows", "written"})
        /\ consumed < Len(input) => (output = Unopened /\ review_output = Unopened)
        /\ output.records = SubSeq(results, 1, Len(output.records))
        /\ review_output.records = SubSeq(review_items, 1, Len(review_output.records))
        /\ op # "process_sample.main"
              => \A i \in 1..Len(output.records) : Accepts(op, output.records[i].ipa)

\* Three rows, the second rejected: the two accepted ones are written after
\* the third has been processed.
C15_Witness ==
    /\ op = "Adv.process_data"
    /\ pc = "written"
    /\ consumed = 3
    /\ invalid_count = 1
    /\ Len(output.records) = 2

CarriesMarker(text) ==
    \/ HasSubstring(text, NoIpaMark)
    \/ HasSubstring(text, TokenMark)
    \/ HasSubstring(text, EmptyMark)

\* A change is recorded for the record: a rule of the table changed its text,
\* or __NO_IPA__ was replaced by "error"
RuleFired(r) == r.changes_count > 0

ReviewAsClaimed(r) == RuleFired(r) \/ CarriesMarker(r.normalized_ipa)

\* C16: every record of the review list is a record of the result list, and a
\* record is in the review list exactly when a rule fired on it or its
\* normalized text carries one of the markers __NO_IPA__, #TOKEN, __EMPTY__;
\* what is written to the review stream is in the output stream.
C16_ReviewSubset ==
    op = "process_sample.main" =>
        /\ \A i \in 1..Len(review_items) : IsMember(review_items[i], results)
        /\ \A i \in 1..Len(review_output.records) :
              IsMember(review_output.records[i], output.records)
        /\ review_items = SelectSeq(results, ReviewAsClaimed)

\* A line of the input of process_sample that is not blank
NotBlank(raw) == Strip(raw) # <<>>

\* A line with the two tab-separated fields word and IPA
TwoFields(raw) == NotBlank(raw) /\ Contains(Strip(raw), {"\t"})

LacksFields(raw) == NotBlank(raw) /\ ~TwoFields(raw)

\* C17: when main of process_sample has run to its end, a line without the two
\* tab-separated fields has produced no record, every line with the two fields
\* has produced one, the reported total counts only those, and the number of
\* lines skipped for lacking fields is reported as a count of its own.
C17_MalformedRecord ==
    (op = "process_sample.main" /\ pc = "returned" /\ NoIoFailure) =>
        /\ Len(results) = Len(SelectSeq(input, TwoFields))
        /\ output.records = results
        /\ IsMember(<<"total", Len(SelectSeq(input, TwoFields))>>, log)
        /\ SelectSeq(input, LacksFields) # <<>>
              => \E i \in 1..Len(log) :
                    /\ log[i][1] = "skipped"
                    /\ log[i][2] = Len(SelectSeq(input, LacksFields))

\* The rules of rs that change the text when rs is folded over it, up to rule k
RECURSIVE FiredUpTo(_, _, _)
FiredUpTo(rs, text, k) ==
    IF k = 0 THEN <<>>
    ELSE FiredUpTo(rs, text, k - 1) \o
            (IF FoldRules(SubSeq(rs, 1, k), text) # FoldRules(SubSeq(rs, 1, k - 1), text)
             THEN <<k>> ELSE <<>>)

\* The record of a line as a function of the line and the rule table alone
RecordOf(raw, rs) ==
    LET word == SplitTabOnce(Strip(raw))[1]
        original == SplitTabOnce(Strip(raw))[2]
        folded == FoldRules(rs, original)
        detail == FiredUpTo(rs, original, Len(rs)) \o
                     (IF folded = NoIpaMark THEN <<0>> ELSE <<>>)
    IN  [word |-> word, original_ipa |-> original,
         normalized_ipa |-> IF folded = NoIpaMark THEN ErrorText ELSE folded,
         changes_count |-> Len(detail), changes_detail |-> detail]

ReviewedByOwnFields(r) ==
    r.normalized_ipa # r.original_ipa \/ CarriesMarker(r.normalized_ipa)

RecordsIndependent ==
    op = "process_sample.main" =>
        LET seen == SelectSeq(SubSeq(input, 1, consumed), TwoFields)
        IN  /\ results = [i \in 1..Len(seen) |-> RecordOf(seen[i], rules)]
            /\ review_items = SelectSeq(results, ReviewedByOwnFields)

\* C19: in main of process_sample the record of every line processed so far
\* (normalized text, fired rules, review classification) is a function of
\* that line and the rule table alone, whatever lines came before it, and no
\* step changes the rule table.
C19_RecordIndependence == []RecordsIndependent /\ [][rules' = rules]_vars

\* Without rules, a record with __NO_IPA__ (one change recorded) is followed by
\* a record with no change.
C19_Witness ==
    /\ op = "process_sample.main"
    /\ rules = <<>>
    /\ Len(results) = 2
    /\ results[1].changes_detail = <<0>>
    /\ results[2].changes_count = 0

-----------------------------------------------------------------------------
(* Specification of the Wiktionary collaborator: process_words fetches      *)
(* each word of a list; every fetch succeeds, answers with another status   *)
(* or raises.                                                               *)

MaxWords == 3      \* longest word list handed to process_words

\* Characters whose presence makes a template part an IPA candidate
IpaHints == {"ˈ", "ˌ", Schwa, SmallCapI, OpenE, "æ", OpenA, OpenO, "ʊ", "ʌ", "/"}

\* The text s holds the text p at position i
HasAt(s, i, p) == i + Len(p) - 1 <= Len(s) /\ SubSeq(s, i, i + Len(p) - 1) = p

\* Position of the first "}" at or after position j, the end of the run [^}]*
RECURSIVE BraceAt(_, _)
BraceAt(s, j) == IF j > Len(s) \/ s[j] = "}" THEN j ELSE BraceAt(s, j + 1)

\* re.match of \{\{name\|[^}]*\|([^}]+)\}\} at position i: the group and the
\* position after the match, or <<>>; the greedy [^}]* ends at the last bar
\* that leaves the group at least one character
TemplateMatch(s, i, name) ==
    LET head == <<"{", "{">> \o name \o <<"|">>
        j == i + Len(head)
        e == BraceAt(s, j)
        bars == {p \in j..(e - 2) : s[p] = "|"}
    IN  IF HasAt(s, i, head) /\ HasAt(s, e, <<"}", "}">>) /\ bars # {}
        THEN LET p == CHOOSE b \in bars : \A c \in bars : c <= b
             IN  <<SubSeq(s, p + 1, e - 1), e + 2>>
        ELSE <<>>

\* re.findall of the template pattern from position i on
RECURSIVE FindTemplates(_, _, _)
FindTemplates(s, i, name) ==
    IF i > Len(s) THEN <<>>
    ELSE LET m == TemplateMatch(s, i, name)
         IN  IF m # <<>> THEN <<m[1]>> \o FindTemplates(s, m[2], name)
                         ELSE FindTemplates(s, i + 1, name)

\* str.split(ch)
RECURSIVE SplitOn(_, _)
SplitOn(s, ch) ==
    IF Contains(s, {ch})
    THEN LET t == CHOOSE i \in 1..Len(s) : s[i] = ch /\ \A j \in 1..(i - 1) : s[j] # ch
         IN  <<SubSeq(s, 1, t - 1)>> \o SplitOn(SubSeq(s, t + 1, Len(s)), ch)
    ELSE <<s>>

IsBracket(c) == c \in {"[", "]", "{", "}"}

NotBracket(c) == ~IsBracket(c)

\* re.sub(r'[\[\]{}]', '', part)
CleanIpa(part) == SelectSeq(part, NotBracket)

\* The parts of one template that are kept as IPA patterns
TemplateParts(template) ==
    LET parts == SplitOn(template, "|")
    IN  {CleanIpa(Strip(parts[k])) : k \in {n \in 1..Len(parts) :
              /\ Contains(Strip(parts[n]), IpaHints)
              /\ Len(CleanIpa(Strip(parts[n]))) > 1}}

IpaName == <<"I", "P", "A">>

EnPRName == <<"e", "n", "P", "R">>

\* WiktionaryProcessor.extract_ipa_from_content, before list(set(...)) fixes an order
extract_ipa_from_content(content) ==
    LET ipa_templates == FindTemplates(content, 1, IpaName)
        enpr_templates == FindTemplates(content, 1, EnPRName)
    IN  UNION ({TemplateParts(ipa_templates[k]) : k \in 1..Len(ipa_templates)}
               \cup {TemplateParts(enpr_templates[k]) : k \in 1..Len(enpr_templates)})

\* list(set(...)): the patterns in an order the set iteration happens to give
Orderings(S) ==
    {q \in [1..Cardinality(S) -> S] : \A x \in S : \E k \in 1..Cardinality(S) : q[k] = x}

\* Page sources the server may answer with
ContentPool ==
    {<<>>,
     <<"{", "{", "I", "P", "A", "|", "e", "n", "|", "/", "k", "æ", "t", "/", "}", "}">>,
     <<"{", "{", "e", "n", "P", "R", "|", "a", "|", "ˈ", "b", "}", "}", "{", "{", "I", "P", "A", "|", "e", "n", "|", "[", "ˈ", "a", "]", "|", "/", "k", "/", "}", "}">>}

\* Body of an answer whose status is not 200
ErrorBody == <<"{", "{", "I", "P", "A", "|", "e", "n", "|", "/", "x", "/", "}", "}">>

\* Outcomes of session.get: an answer with a status code and a body, or an exception
FetchOutcomes ==
    {[raised |-> FALSE, status_code |-> 200, text |-> c, message |-> ""] : c \in ContentPool}
    \cup {[raised |-> FALSE, status_code |-> code, text |-> ErrorBody, message |-> ""] :
              code \in {404, 500}}
    \cup {[raised |-> TRUE, status_code |-> 0, text |-> <<>>, message |-> "timeout"]}

\* WiktionaryProcessor.get_wiktionary_page with every answer taken as a success
get_wiktionary_page_AlwaysSuccess(word, response) ==
    IF response.raised
    THEN [word |-> word, content |-> <<>>, status |-> "error_" \o response.message]
    ELSE [word |-> word, content |-> response.text, status |-> "success"]

\* WiktionaryProcessor.get_wiktionary_page
get_wiktionary_page(word, response) ==
    IF response.raised
    THEN [word |-> word, content |-> <<>>, status |-> "error_" \o response.message]
    ELSE IF response.status_code = 200
         THEN [word |-> word, content |-> response.text, status |-> "success"]
         ELSE [word |-> word, content |-> <<>>,
               status |-> "error_" \o ToString(response.status_code)]

\* Words of the list
WordPool == {<<"c", "a", "t">>, <<"d", "o", "g">>}

InitWiktionary ==
    /\ op = "process_words"
    /\ input \in Texts(WordPool, MaxWords)
    /\ consumed = 0
    /\ results = <<>>
    /\ review_items = <<>>
    /\ invalid_count = 0
    /\ output = Unopened
    /\ review_output = Unopened
    /\ log = <<>>
    /\ pc = "words"
    /\ ipa = <<>>
    /\ cleaned = <<>>
    /\ prev = <<>>
    /\ calls = 0
    /\ phonemes = <<>>
    /\ valid = "none"
    /\ rules = <<>>
    /\ ri = 0
    /\ changes = <<>>

\* WiktionaryProcessor.process_words: one iteration of the loop, that is one
\* call of process_word; an entry of the log is a request or a wait
ProcessWord ==
    /\ op = "process_words"
    /\ pc = "words"
    /\ consumed < Len(input)
    /\ \E response \in FetchOutcomes :
          LET word == input[consumed + 1]
              page_data == get_wiktionary_page(word, response)
              requested == Append(log, <<"get", word, response.status_code>>)
          IN  IF page_data.status # "success"
              THEN /\ results' = Append(results, <<word, <<>>, page_data.status>>)
                   /\ log' = requested
              ELSE \E ipa_patterns \in Orderings(extract_ipa_from_content(page_data.content)) :
                      /\ results' = Append(results, <<word, ipa_patterns, page_data.status>>)
                      /\ log' = Append(requested, <<"sleep", word, 1>>)
    /\ consumed' = consumed + 1
    /\ UNCHANGED <<ipa, cleaned, prev, op, calls, phonemes, valid, rules, ri, changes,
                   input, review_items, invalid_count, output, review_output, pc>>

\* WiktionaryProcessor.process_words: return results
ProcessWordsReturn ==
    /\ op = "process_words"
    /\ pc = "words"
    /\ consumed = Len(input)
    /\ pc' = "returned"
    /\ UNCHANGED <<ipa, cleaned, prev, op, calls, phonemes, valid, rules, ri, changes,
                   input, consumed, results, review_items, invalid_count, output,
                   review_output, log>>

NextWiktionary == ProcessWord \/ ProcessWordsReturn

SpecWiktionary == InitWiktionary /\ [][NextWiktionary]_vars

IsGet(entry) == entry[1] = "get"

\* C18: a failed fetch (a status other than 200, or an exception) never aborts
\* process_words: the result list has one entry per word handled so far, in
\* input order, every word is requested exactly once, the entry of a failed
\* word has an empty IPA list and a status other than 'success', and the list
\* returned has one entry per input word.
C18_FailureIsolation ==
    op = "process_words" =>
        LET gets == SelectSeq(log, IsGet)
        IN  /\ Len(results) = consumed
            /\ Len(gets) = consumed
            /\ \A i \in 1..Len(results) :
                  /\ results[i][1] = input[i]
                  /\ gets[i][2] = input[i]
                  /\ gets[i][3] # 200 =>
                        /\ results[i][2] = <<>>
                        /\ results[i][3] # "success"
                        /\ results[i][3] \in {"error_404", "error_500", "error_timeout"}
            /\ pc = "returned" => Len(results) = Len(input)

\* A list of three words has been returned: the first fetch raised, the second
\* was answered with 404, and the third succeeded with a pattern
C18_Witness ==
    /\ op = "process_words"
    /\ pc = "returned"
    /\ Len(input) = MaxWords
    /\ Len(results) = MaxWords
    /\ results[1][3] = "error_timeout"
    /\ results[2][3] = "error_404"
    /\ results[MaxWords][3] = "success"
    /\ results[MaxWords][2] # <<>>

-----------------------------------------------------------------------------
(* Claim about the scan of IPACorrector.convert_arpabet_to_ipa *)

NotStressGlyph(ch) == ch \notin StressGlyphs

\* Positions of the text where a run of uppercase letters starts
RunStarts(text) ==
    {i \in 1..Len(text) : text[i] \in Upper /\ (i = 1 \/ text[i - 1] \notin Upper)}

\* Last position of the run of uppercase letters that starts at position i
RunLast(text, i) ==
    CHOOSE e \in i..Len(text) :
        /\ \A j \in i..e : text[j] \in Upper
        /\ e = Len(text) \/ text[e + 1] \notin Upper

\* The k-th run start, counted from the left
KthStart(text, k) ==
    CHOOSE i \in RunStarts(text) : Cardinality({j \in RunStarts(text) : j < i}) = k - 1

\* C20: after convert_arpabet_to_ipa the token list holds one token per
\* maximal run of uppercase letters of the text (stress glyphs removed), in
\* input order, the token's symbol being the whole run; a run followed by a
\* digit carries that digit as its stress, a run followed by a space, a comma
\* or a slash, or ending the text, carries stress 0; the empty text gives the
\* empty token list and the empty result.
C20_ScanRules ==
    op = "convert_arpabet_to_ipa" =>
        LET text == SelectSeq(ipa, NotStressGlyph)
        IN  /\ Len(phonemes) = Cardinality(RunStarts(text))
            /\ \A k \in 1..Len(phonemes) :
                  LET i == KthStart(text, k)
                      e == RunLast(text, i)
                  IN  /\ phonemes[k][1] = SubSeq(text, i, e)
                      /\ (e < Len(text) /\ text[e + 1] \in {"0", "1", "2"})
                            => phonemes[k][2] = text[e + 1]
                      /\ (e = Len(text) \/ text[e + 1] \in Delimiters)
                            => phonemes[k][2] = "0"
            /\ ipa = <<>> => (phonemes = <<>> /\ cleaned = <<>>)

\* "AH0 B AO1 R SH AH0 N" has been scanned: letters accumulated into AO and
\* closed by the digit 1, B closed by a space, N flushed at the end of the text
C20_Witness ==
    /\ op = "convert_arpabet_to_ipa"
    /\ ipa = Scenario
    /\ Len(phonemes) = 7
    /\ phonemes[2] = <<<<"B">>, "0">>
    /\ phonemes[3] = <<<<"A", "O">>, "1">>
    /\ phonemes[7] = <<<<"N">>, "0">>

-----------------------------------------------------------------------------
(* Claims about the two symbol mappers, convert_to_ipa and the mapping loop *)
(* of convert_arpabet_to_ipa                                                *)

MapperOps == {"convert_to_ipa", "convert_arpabet_to_ipa"}

\* The stress level of a token: an integer in convert_to_ipa, a digit
\* character in convert_arpabet_to_ipa
StressLevel(stress) ==
    IF op = "convert_to_ipa"
    THEN (IF stress = 1 THEN "PRIMARY" ELSE IF stress = 2 THEN "SECONDARY" ELSE "NONE")
    ELSE (IF stress = "1" THEN "PRIMARY" ELSE IF stress = "2" THEN "SECONDARY" ELSE "NONE")

\* The glyphs a vowel code may be rendered with: its table entry, and for AH
\* one of its two glyphs
GlyphsOf(symbol) ==
    {vowel_mapping[symbol]} \cup (IF symbol = AH THEN {<<"ʌ">>, <<Schwa>>} ELSE {})

\* The renderings of one token as the claim describes them
RenderedToken(symbol, level) ==
    IF symbol \in DOMAIN vowel_mapping
    THEN {(IF level = "PRIMARY" THEN <<"ˈ">>
           ELSE IF level = "SECONDARY" THEN <<"ˌ">> ELSE <<>>) \o g : g \in GlyphsOf(symbol)}
    ELSE IF symbol \in DOMAIN consonant_mapping
    THEN {consonant_mapping[symbol]}
    ELSE {<<>>}

RECURSIVE Renderings(_)
Renderings(tokens) ==
    IF tokens = <<>> THEN {<<>>}
    ELSE {h \o t : h \in RenderedToken(Head(tokens)[1], StressLevel(Head(tokens)[2])),
                   t \in Renderings(Tail(tokens))}

\* First characters of the glyphs of the vowel table
VowelGlyphHeads ==
    {g[1] : g \in UNION {GlyphsOf(symbol) : symbol \in DOMAIN vowel_mapping}}

\* C21: the mapper output is the concatenation, in token order, of the
\* renderings of the tokens: a vowel-table token with stress PRIMARY is 'ˈ'
\* followed by its glyph, with SECONDARY 'ˌ' followed by its glyph, with NONE
\* the bare glyph, a consonant-table token is its bare glyph whatever its
\* stress; and every stress glyph of the output is immediately followed by a
\* vowel glyph.
C21_StressPrefixing ==
    op \in MapperOps =>
        /\ cleaned \in Renderings(phonemes)
        /\ \A i \in 1..Len(cleaned) :
              cleaned[i] \in StressGlyphs =>
                  i < Len(cleaned) /\ cleaned[i + 1] \in VowelGlyphHeads

\* "AH1T" has been mapped: the vowel AH with stress 1 is rendered with 'ˈ' before it
C21_Witness ==
    /\ op = "convert_arpabet_to_ipa"
    /\ ipa = <<"A", "H", "1", "T">>
    /\ phonemes = <<<<<<"A", "H">>, "1">>, <<<<"T">>, "0">>>>
    /\ cleaned = <<"ˈ", "ʌ", "t">>

KnownCode(token) == token[1] \in DOMAIN vowel_mapping \cup DOMAIN consonant_mapping

\* C22: the mapper output equals the mapper output on the token sequence with
\* every token removed whose code is in neither table; no error is raised
\* (the mapper returns a text for every token sequence).
C22_UnknownDropped ==
    /\ op = "convert_to_ipa" => cleaned = convert_to_ipa(SelectSeq(phonemes, KnownCode))
    /\ op = "convert_arpabet_to_ipa" => cleaned = JoinIpaPhonemes(SelectSeq(phonemes, KnownCode))

\* "T A1" has been mapped: the code A is in neither table and leaves nothing
\* in the output
C22_Witness ==
    /\ op = "convert_arpabet_to_ipa"
    /\ ipa = <<"T", " ", "A", "1">>
    /\ phonemes = <<<<<<"T">>, "0">>, <<<<"A">>, "1">>>>
    /\ cleaned = <<"t">>

-----------------------------------------------------------------------------
(* Claim about the change list of apply_mapping *)

\* C23: in apply_mapping rule i is in the change list if and only if the text
\* immediately before its substitution differs from the text immediately
\* after it; the entries of the change list are in rule order and no rule
\* appears twice.
C23_AppliedRuleRecording ==
    op \in {"apply_mapping", "apply_mapping.return"} =>
        /\ \A k \in 1..Len(changes) : changes[k] \in 1..ri
        /\ \A k \in 2..Len(changes) : changes[k - 1] < changes[k]
        /\ \A i \in 1..ri :
              (\E k \in 1..Len(changes) : changes[k] = i)
                  <=> FoldRules(SubSeq(rules, 1, i - 1), ipa) # FoldRules(SubSeq(rules, 1, i), ipa)
        /\ op = "apply_mapping" =>
              ((changes # <<>> /\ changes[Len(changes)] = ri) <=> prev # cleaned)

\* t -> t then t -> j on 't': the first rule matches and leaves the text as it
\* was, so only the second one is recorded
C23_Witness ==
    /\ op = "apply_mapping.return"
    /\ ipa = <<"t">>
    /\ rules = <<SeqRule(Classes(<<"t">>), Lit(<<"t">>)),
                 SeqRule(Classes(<<"t">>), Lit(<<"j">>))>>
    /\ changes = <<2>>
    /\ cleaned = <<"j">>

-----------------------------------------------------------------------------
(* Claim about the stress glyph of a text with a vowel *)

\* C24: after clean_stress_marks, fix_stress_placement or
\* correct_ipa_pronunciation has run, a text that contains a vowel of the set
\* a e i o u æ ɑ ɔ ʊ ʌ ɪ ɛ ə ɜ contains at least one stress glyph.
C24_VowelHasStress ==
    (calls >= 1 /\ op \in {"clean_stress_marks", "fix_stress_placement",
                           "correct_ipa_pronunciation"} /\ HasVowel(cleaned))
        => Contains(cleaned, StressGlyphs)

\* clean_stress_marks on 'tˈtæ': a glyph is inserted before the vowel, then the
\* glyph between the two consonants is deleted
C24_Witness ==
    /\ calls = 1
    /\ op = "clean_stress_marks"
    /\ ipa = <<"t", "ˈ", "t", "æ">>
    /\ cleaned = <<"t", "t", "ˈ", "æ">>

-----------------------------------------------------------------------------
(* Claim about re-running the built-in rule pipeline *)

\* C25: standardize_ipa is idempotent: run on its own output it returns that
\* output unchanged, whatever the input (commas, spaces, tabs and several
\* comma-separated pronunciations included).
C25_StandardizeIdempotent ==
    (op = "standardize_ipa" /\ calls >= 2) => cleaned = prev

-----------------------------------------------------------------------------
(* Claims about UltimateIPACorrector *)

IsStress(ch) == ch \in StressGlyphs

\* C26: completely_fix_stress_marks, on a text with a character that is not a
\* stress glyph, returns a text with exactly one stress glyph; the glyph is
\* 'ˈ' and stands immediately before the first vowel, or at the head when the
\* text has no vowel; the other characters keep their order.  On a text of
\* stress glyphs only, or the empty text, it returns the empty text.
C26_ExactlyOneStress ==
    (calls >= 1 /\ op = "completely_fix_stress_marks") =>
        LET n == SelectSeq(prev, NotStress)
        IN  IF n = <<>> THEN cleaned = <<>>
            ELSE /\ Len(SelectSeq(cleaned, IsStress)) = 1
                 /\ SelectSeq(cleaned, NotStress) = n
                 /\ \E p \in 1..Len(cleaned) :
                       /\ cleaned[p] = "ˈ"
                       /\ IF HasVowel(n)
                          THEN /\ p < Len(cleaned)
                               /\ cleaned[p + 1] \in Vowels
                               /\ \A j \in 1..(p - 1) : cleaned[j] \notin Vowels
                          ELSE p = 1

\* 'ˌtˌæ' becomes 'tˈæ': both secondary glyphs are gone and one primary glyph
\* stands before the vowel
C26_Witness ==
    /\ calls = 1
    /\ op = "completely_fix_stress_marks"
    /\ ipa = <<"ˌ", "t", "ˌ", "æ">>
    /\ cleaned = <<"t", "ˈ", "æ">>

-----------------------------------------------------------------------------
(* Specification of the cleaning of UltimateIPACorrector: a text is drawn,  *)
(* clean_ipa_pronunciation is run on it and re-run on its own output.       *)

MaxCleanText == 3

\* Stress glyphs, a vowel, a consonant, a bracket, a brace and whitespace
CleanAlphabet == {"ˈ", "ˌ", "æ", "t", "[", "}", " ", "\t"}

InitClean ==
    /\ ipa \in Texts(CleanAlphabet, MaxCleanText)
    /\ cleaned = ipa
    /\ prev = ipa
    /\ op = ""
    /\ calls = 0
    /\ Idle

UltCleanIpaPronunciation ==
    /\ calls < MaxCalls
    /\ prev' = cleaned
    /\ cleaned' = Ult_clean_ipa_pronunciation(cleaned)
    /\ op' = "Ult_clean_ipa_pronunciation"
    /\ calls' = calls + 1
    /\ UNCHANGED <<ipa, phonemes, valid, rules, ri, changes, batchVars>>

NextClean == UltCleanIpaPronunciation

SpecClean == InitClean /\ [][NextClean]_vars

\* C27: UltimateIPACorrector.clean_ipa_pronunciation is idempotent: cleaning
\* the cleaned text again returns it unchanged.
C27_CleanIdempotent ==
    (op = "Ult_clean_ipa_pronunciation" /\ calls >= 2) => cleaned = prev

-----------------------------------------------------------------------------
(* Claim about what the CSV drivers collect and write *)

\* The cleaned text of a row under the driver that is running
CleanedRow(row) ==
    CASE op = "Adv.process_data" -> Adv_clean_ipa_pronunciation(Strip(row.ipa))
      [] op = "Final.process_corrected_data" -> clean_stress_marks(Strip(row.ipa))
      [] OTHER -> Ult_clean_ipa_pronunciation(Strip(row.ipa))

\* The validator of the driver that is running accepts the cleaned text of the row
AcceptedRow(row) ==
    CASE op = "Adv.process_data" -> Adv_validate_ipa_format(CleanedRow(row))
      [] op = "Final.process_corrected_data" -> Final_validate_ipa_format(CleanedRow(row))
      [] OTHER -> Ult_validate_ipa_format(CleanedRow(row))

\* The accepted rows of a list of rows, in order, each with its cleaned text
AcceptedEntries(rows) ==
    LET acc == SelectSeq(rows, AcceptedRow)
    IN  [i \in 1..Len(acc) |->
            [word |-> Strip(acc[i].word), ipa |-> CleanedRow(acc[i]),
             source |-> Strip(acc[i].source), original_ipa |-> Strip(acc[i].original_ipa)]]

-----------------------------------------------------------------------------
(* Claim about the records with a recorded change *)

\* C29: in main of process_sample every record whose changes_count is greater
\* than 0 is in the review list, whatever the rule list, rule lists in which
\* a later rule undoes the change of an earlier one included.
C29_ChangedRecordsReviewed ==
    op = "process_sample.main" =>
        \A i \in 1..Len(results) :
            results[i].changes_count > 0 => IsMember(results[i], review_items)

-----------------------------------------------------------------------------
(* Claim about what of the input reaches the output of convert_arpabet_to_ipa *)

IsPrimary(ch) == ch = "ˈ"

IsSecondary(ch) == ch = "ˌ"

VowelWithPrimary(token) == token[1] \in DOMAIN vowel_mapping /\ token[2] = "1"

VowelWithSecondary(token) == token[1] \in DOMAIN vowel_mapping /\ token[2] = "2"

\* The text with its stress glyphs removed and every other character that is
\* neither an uppercase letter nor a digit replaced by a space
Blanked(text) ==
    LET kept == SelectSeq(text, NotStressGlyph)
    IN  [i \in 1..Len(kept) |->
            IF kept[i] \in Upper \cup Digits THEN kept[i] ELSE " "]

=============================================================================
